---------------------------- MODULE Spec2Model ----------------------------
(***************************************************************************)
(* A model of the wrpl replay decoder: the VarSize size-prefix codec, the   *)
(* packet-header codec, the chat payload parser, the packet loop of        *)
(* process_replay_data and the results step (src/src/parser.rs), the file  *)
(* header (src/src/header.rs), the search for the zlib stream              *)
(* (src/src/utils.rs) and the orchestrator (src/src/bin/parse_replay.rs).  *)
(*                                                                         *)
(* Bytes are naturals 0..255; a byte source is a sequence of bytes and a   *)
(* count of bytes already consumed (0-based position).                     *)
(***************************************************************************)
EXTENDS Integers, Sequences, FiniteSets, TLC

VARIABLES
    \* ---- process_replay_data -------------------------------------------
    data,                        \* the `data` slice handed to the decoder
    start_offset,                \* the `start_offset` argument
    skip_zlib,                   \* the `skip_zlib` argument
    stream,                      \* the bytes `reader` yields (after inflation)
    pos,                         \* bytes of `stream` consumed by `reader`
    pc,                          \* position inside process_replay_data
    last_timestamp_ms,
    packet_count,                \* stats.packet_count
    total_decompressed_bytes,    \* stats.total_decompressed_bytes
    final_offset,                \* stats.final_offset
    packets,                     \* stats.packets
    chat_messages,               \* stats.chat_messages
    decompressed_payload_size,
    prefix_bytes_read,
    packet_data_with_header,
    total_bytes_read_for_payload,
    returned,                    \* what the call returned: Running, Ok(stats), Err
    \* ---- history of the run (not program state) ------------------------
    frames,                      \* one record per size prefix decoded
    chunks,                      \* the pieces the input stream was built from
    cut,                         \* how many bytes of their concatenation exist
    \* ---- a single call of one of the pure functions --------------------
    fn_input,                    \* the bytes handed to the function
    fn_last_ts,                  \* last_timestamp_ms / timestamp_ms argument
    fn_output,                   \* its return value, [tag |-> "Pending"] before
    \* ---- the callers of process_replay_data ----------------------------
    caller,                      \* position inside the caller, "idle" without one
    args,                        \* Args of the command line: offset, skip_zlib, parse_results
    has_wrpl_header,             \* main: file_data starts with E5 AC
    header_info,                 \* the ReplayHeader the caller holds, if any
    blk_calls,                   \* history: the slices handed to decompress_blk
    blk,                         \* one call of decompress_blk: parent, child, pipes
    result                       \* what the caller returned, or the exit code of main

loopVars == <<data, start_offset, skip_zlib, stream, pos, pc, last_timestamp_ms,
              packet_count, total_decompressed_bytes, final_offset, packets,
              chat_messages, decompressed_payload_size, prefix_bytes_read,
              packet_data_with_header, total_bytes_read_for_payload, returned,
              frames, chunks, cut>>

fnVars == <<fn_input, fn_last_ts, fn_output>>

callerVars == <<caller, args, has_wrpl_header, header_info, blk_calls, blk, result>>

vars == <<loopVars, fnVars, callerVars>>

---------------------------------------------------------------------------
(* Bounds of the model.                                                    *)

\* bytes that follow the first byte of a pure-function input
MaxTail == 4
\* length of a chat payload handed to parse_chat_packet on its own
MaxChatLen == 6
\* pieces concatenated into the stream of the packet loop
MaxChunks == 2

---------------------------------------------------------------------------
(* Integer helpers: Rust's bit operators on non-negative integers.         *)

RECURSIVE BitAnd(_, _)
BitAnd(a, b) ==
    IF a = 0 \/ b = 0 THEN 0
    ELSE (a % 2) * (b % 2) + 2 * BitAnd(a \div 2, b \div 2)

RECURSIVE BitOr(_, _)
BitOr(a, b) ==
    IF a = 0 THEN b
    ELSE IF b = 0 THEN a
    ELSE (IF a % 2 = 1 \/ b % 2 = 1 THEN 1 ELSE 0) + 2 * BitOr(a \div 2, b \div 2)

\* mutant: the class bias merged in with | instead of ^
BitXor_AsOr(a, b) == BitOr(a, b)

RECURSIVE BitXor(_, _)
BitXor(a, b) ==
    IF a = 0 THEN b
    ELSE IF b = 0 THEN a
    ELSE ((a + b) % 2) + 2 * BitXor(a \div 2, b \div 2)

\* x << k
Shl(x, k) == x * (2 ^ k)

\* mutant: the four bytes read big-endian
u32_from_be_bytes(b1, b2, b3, b4) ==
    b4 + 256 * b3 + 65536 * b2 + 16777216 * b1

\* u32::from_le_bytes([b1, b2, b3, b4])
u32_from_le_bytes(b1, b2, b3, b4) ==
    b1 + 256 * b2 + 65536 * b3 + 16777216 * b4

\* i64 -> u32 (try_into): the value fits iff its bits above the low 32 are 0.
\* Values of the model stay below 2^31 (TLC's integers), see TailSeqs.
FitsU32(x) == x >= 0 /\ (x \div 65536) <= 65535

Byte == 0 .. 255

SeqsUpTo(S, n) == UNION { [1 .. k -> S] : k \in 0 .. n }

---------------------------------------------------------------------------
(* The byte source: std::io::Read over a slice (Cursor, BufReader).        *)

\* Read::read into a 1-byte buffer: the number of bytes obtained (0 at EOF)
ReadCount1(s, p) == IF p < Len(s) THEN 1 ELSE 0

\* mutant: the last byte of the source cannot be read
ReadExactOk_Strict(s, p, n) == p + n < Len(s)

\* Read::read_exact of n bytes: Ok iff n bytes remain.  On failure
\* (UnexpectedEof) every remaining byte has been consumed: std's read_exact
\* loops on read until it returns 0, for BufReader and Cursor alike.
\* A slice (or a finished inflater) never fails a read in another way.
ReadExactOk(s, p, n) == p + n <= Len(s)

ReadExactPos(s, p, n) == IF p + n <= Len(s) THEN p + n ELSE Len(s)
ReadExactBytes(s, p, n) == SubSeq(s, p + 1, p + n)

---------------------------------------------------------------------------
(* read_variable_length_size                                               *)

VarSizeNone(p) == [tag |-> "None", size |-> 0, bytes_read |-> 0, pos |-> p]
\* mutant: a prefix that was decoded leaves the reader where it was
VarSizeSome_Stays(sz, n, p) ==
    [tag |-> "Some", size |-> sz, bytes_read |-> n, pos |-> p - n]

\* Ok(Some((size, prefix_bytes_read))), with the reader behind the prefix
VarSizeSome(sz, n, p) == [tag |-> "Some", size |-> sz, bytes_read |-> n, pos |-> p]
VarSizeErr(kind, p) == [tag |-> kind, size |-> 0, bytes_read |-> 0, pos |-> p]

\* mutant: the first byte is left out of the count of prefix bytes
VarSizeFinish_DropsFirstByte(payload_size, prefix_bytes, p) ==
    IF ~FitsU32(payload_size)
    THEN VarSizeErr("TryFromInt", p)
    ELSE VarSizeSome(payload_size, prefix_bytes - 1, p)

\* the tail of the function: payload_size.try_into::<u32>()
VarSizeFinish(payload_size, prefix_bytes, p) ==
    IF ~FitsU32(payload_size)
    THEN VarSizeErr("TryFromInt", p)
    ELSE VarSizeSome(payload_size, prefix_bytes, p)

\* mutant: the classes of two, three and four bytes start where the shorter
\* class ends (64, 64 + 2^14, 64 + 2^14 + 2^21) instead of at 0
VarSizeMulti_Biased(s, p, first_byte, n) ==
    IF ~ReadExactOk(s, p + 1, n)
    THEN VarSizeErr("UnexpectedEof", ReadExactPos(s, p + 1, n))
    ELSE LET b == ReadExactBytes(s, p + 1, n)
             q == p + 1 + n
         IN  CASE n = 1 ->
                    VarSizeFinish(
                        BitXor(BitOr(Shl(first_byte, 8), b[1]), 16384) + 64,
                        2, q)
               [] n = 2 ->
                    VarSizeFinish(
                        BitXor(BitOr(BitOr(Shl(first_byte, 16), Shl(b[1], 8)), b[2]),
                               2097152) + 16448,
                        3, q)
               [] n = 3 ->
                    VarSizeFinish(
                        BitXor(BitOr(BitOr(BitOr(Shl(first_byte, 24), Shl(b[1], 16)),
                                           Shl(b[2], 8)), b[3]),
                               268435456) + 2113600,
                        4, q)
               [] OTHER ->
                    VarSizeFinish(u32_from_le_bytes(b[1], b[2], b[3], b[4]), 5, q)

\* the continuation bytes of a multi-byte prefix: n more bytes, or UnexpectedEof
VarSizeMulti(s, p, first_byte, n) ==
    IF ~ReadExactOk(s, p + 1, n)
    THEN VarSizeErr("UnexpectedEof", ReadExactPos(s, p + 1, n))
    ELSE LET b == ReadExactBytes(s, p + 1, n)
             q == p + 1 + n
         IN  CASE n = 1 ->
                    VarSizeFinish(BitXor(BitOr(Shl(first_byte, 8), b[1]), 16384),
                                  2, q)
               [] n = 2 ->
                    VarSizeFinish(
                        BitXor(BitOr(BitOr(Shl(first_byte, 16), Shl(b[1], 8)), b[2]),
                               2097152),
                        3, q)
               [] n = 3 ->
                    VarSizeFinish(
                        BitXor(BitOr(BitOr(BitOr(Shl(first_byte, 24), Shl(b[1], 16)),
                                           Shl(b[2], 8)), b[3]),
                               268435456),
                        4, q)
               [] OTHER ->
                    VarSizeFinish(u32_from_le_bytes(b[1], b[2], b[3], b[4]), 5, q)

read_variable_length_size(s, p) ==
    IF ReadCount1(s, p) = 0 THEN VarSizeNone(p)
    ELSE LET first_byte == s[p + 1] IN
         IF BitAnd(first_byte, 128) # 0
         THEN IF BitAnd(first_byte, 64) = 0
              THEN VarSizeFinish(BitAnd(first_byte, 127), 1, p + 1)
              ELSE VarSizeErr("InvalidPrefix", p + 1)
         ELSE IF BitAnd(first_byte, 64) # 0 THEN VarSizeMulti(s, p, first_byte, 1)
         ELSE IF BitAnd(first_byte, 32) # 0 THEN VarSizeMulti(s, p, first_byte, 2)
         ELSE IF BitAnd(first_byte, 16) # 0 THEN VarSizeMulti(s, p, first_byte, 3)
         ELSE VarSizeMulti(s, p, first_byte, 4)

---------------------------------------------------------------------------
(* read_packet_header_from_stream                                          *)

PacketHeaderNone ==
    [tag |-> "None", packet_type |-> 0, timestamp_ms |-> 0, bytes_read |-> 0]
PacketHeaderSome(t, ts, n) ==
    [tag |-> "Some", packet_type |-> t, timestamp_ms |-> ts, bytes_read |-> n]

\* mutant: the elision flag looked up in the wrong bit
TimestampElided_Bit5(first_byte) == BitAnd(first_byte, 32) # 0

\* line 116: the timestamp-elision test on the first byte
TimestampElided(first_byte) == BitAnd(first_byte, 16) # 0

\* mutant: a timestamp that is cut short is given as 0
HeaderTimestamp_Reset(s, p, first_byte, last_ts) ==
    IF ReadExactOk(s, p + 1, 4)
    THEN LET ts_bytes == ReadExactBytes(s, p + 1, 4) IN
         PacketHeaderSome(first_byte,
                          u32_from_le_bytes(ts_bytes[1], ts_bytes[2],
                                            ts_bytes[3], ts_bytes[4]),
                          5)
    ELSE PacketHeaderSome(first_byte, 0, 1)

\* lines 123-135: the 4 timestamp bytes, or the previous timestamp when the
\* source ends before them (UnexpectedEof is downgraded to a warning)
HeaderTimestamp(s, p, first_byte, last_ts) ==
    IF ReadExactOk(s, p + 1, 4)
    THEN LET ts_bytes == ReadExactBytes(s, p + 1, 4) IN
         PacketHeaderSome(first_byte,
                          u32_from_le_bytes(ts_bytes[1], ts_bytes[2],
                                            ts_bytes[3], ts_bytes[4]),
                          5)
    ELSE PacketHeaderSome(first_byte, last_ts, 1)

read_packet_header_from_stream(s, p, last_ts) ==
    IF ReadCount1(s, p) = 0 THEN PacketHeaderNone
    ELSE LET first_byte == s[p + 1] IN
         IF TimestampElided(first_byte)
         THEN PacketHeaderSome(BitXor(first_byte, 16), last_ts, 1)
         ELSE HeaderTimestamp(s, p, first_byte, last_ts)

---------------------------------------------------------------------------
(* parse_chat_packet                                                       *)

IsCont(b) == b >= 128 /\ b <= 191

\* String::from_utf8: whether the bytes are well-formed UTF-8
RECURSIVE Utf8Valid(_)
Utf8Valid(b) ==
    IF Len(b) = 0 THEN TRUE
    ELSE LET c == b[1]
             n == Len(b)
             rest(k) == SubSeq(b, k + 1, n)
         IN  IF c <= 127 THEN Utf8Valid(rest(1))
             ELSE IF c >= 194 /\ c <= 223
                  THEN n >= 2 /\ IsCont(b[2]) /\ Utf8Valid(rest(2))
             ELSE IF c >= 224 /\ c <= 239
                  THEN /\ n >= 3
                       /\ IsCont(b[2])
                       /\ IsCont(b[3])
                       /\ (c = 224 => b[2] >= 160)
                       /\ (c = 237 => b[2] <= 159)
                       /\ Utf8Valid(rest(3))
             ELSE IF c >= 240 /\ c <= 244
                  THEN /\ n >= 4
                       /\ IsCont(b[2])
                       /\ IsCont(b[3])
                       /\ IsCont(b[4])
                       /\ (c = 240 => b[2] >= 144)
                       /\ (c = 244 => b[2] <= 143)
                       /\ Utf8Valid(rest(4))
             ELSE FALSE

ChatNone == [tag |-> "None"]

\* Option<u8> is a sequence of length 0 or 1
ChatSome(ts, sender, message, channel_type, is_enemy) ==
    [tag |-> "Some", timestamp_ms |-> ts, sender |-> sender, message |-> message,
     channel_type |-> channel_type, is_enemy |-> is_enemy]

\* mutant: the bounds test off by one (>= for >)
ReadStringOk_OffByOne(payload, p, len) ==
    /\ p + len < Len(payload)
    /\ Utf8Valid(SubSeq(payload, p + 1, p + len))

\* read_string: Ok iff the string fits in the payload and is valid UTF-8
ReadStringOk(payload, p, len) ==
    /\ p + len <= Len(payload)
    /\ Utf8Valid(SubSeq(payload, p + 1, p + len))

\* lines 602-612: the optional trailing bytes, read from cursor position p
ChatTrailer(payload, ts, sender, message, p) ==
    LET remaining    == Len(payload) - p
        channel_type == IF remaining >= 1 THEN <<payload[p + 1]>> ELSE <<>>
        is_enemy     == IF remaining >= 2 THEN <<payload[p + 2]>> ELSE <<>>
    IN  ChatSome(ts, sender, message, channel_type, is_enemy)

\* lines 599-600: message_len and the message, cursor at p
ChatMessage(payload, ts, sender, p) ==
    IF ~ReadExactOk(payload, p, 1) THEN ChatNone
    ELSE LET message_len == payload[p + 1] IN
         IF ~ReadStringOk(payload, p + 1, message_len) THEN ChatNone
         ELSE ChatTrailer(payload, ts,
                          sender,
                          SubSeq(payload, p + 2, p + 1 + message_len),
                          p + 1 + message_len)

parse_chat_packet(payload, timestamp_ms) ==
    IF Len(payload) = 0 THEN ChatNone
    ELSE IF 1 >= Len(payload) THEN ChatNone        \* only the subtype/flag byte
    ELSE LET sender_len == payload[2] IN
         IF ~ReadStringOk(payload, 2, sender_len) THEN ChatNone
         ELSE ChatMessage(payload, timestamp_ms,
                          SubSeq(payload, 3, 2 + sender_len),
                          2 + sender_len)

---------------------------------------------------------------------------
(* process_replay_data: the inputs of the model                            *)

\* The pieces a stream is built from.  A "frame" piece is a size prefix
\* followed by exactly the bytes it declares; a "raw" piece is anything else.
ChunkCatalog ==
    { [kind |-> "frame", prefix |-> <<128>>,    body |-> <<>>],
      [kind |-> "frame", prefix |-> <<129>>,    body |-> <<18>>],
      [kind |-> "frame", prefix |-> <<132>>,    body |-> <<19, 0, 0, 0>>],
      [kind |-> "frame", prefix |-> <<136>>,    body |-> <<3, 100, 0, 0, 0, 0, 0, 0>>],
      [kind |-> "frame", prefix |-> <<134>>,    body |-> <<2, 50, 1, 0, 0, 7>>],
      [kind |-> "frame", prefix |-> <<64, 2>>,  body |-> <<19, 9>>],
      [kind |-> "frame", prefix |-> <<130>>,    body |-> <<3, 1>>],
      [kind |-> "frame", prefix |-> <<136>>,    body |-> <<19, 0, 1, 65, 1, 66, 1, 0>>],
      [kind |-> "raw",   prefix |-> <<192>>,    body |-> <<>>],
      [kind |-> "raw",   prefix |-> <<131>>,    body |-> <<18>>] }

ChunkBytes(c) == c.prefix \o c.body

RECURSIVE Flatten(_)
Flatten(cs) == IF Len(cs) = 0 THEN <<>> ELSE ChunkBytes(Head(cs)) \o Flatten(Tail(cs))

\* the bytes in front of the stream (a header the decoder seeks past)
Pad(k) == [i \in 1 .. k |-> 229]

\* what a zlib stream looks like from outside: its two magic bytes
ZlibBlob == <<120, 94>>

\* The content of the stream: the first `c` bytes of the pieces `cs`.
StreamOf(cs, c) == SubSeq(Flatten(cs), 1, c)

---------------------------------------------------------------------------
(* process_replay_data                                                     *)

\* what a reader yields when its first read fails: no sequence of bytes
CorruptStream == <<0 - 1>>

\* create_reader: the slice itself, or what ZlibDecoder inflates from it.
\* flate2 is outside the repository: a slice that begins with the zlib
\* stream of the model inflates to the stream content chosen with the
\* input, an empty slice reads as an empty stream, and any other slice is
\* no zlib stream: its first read fails.
create_reader(input_data, skip, inflated) ==
    IF skip THEN input_data
    ELSE IF input_data = <<>> THEN <<>>
    ELSE IF Len(input_data) >= Len(ZlibBlob)
              /\ SubSeq(input_data, 1, Len(ZlibBlob)) = ZlibBlob THEN inflated
    ELSE CorruptStream

\* lines 276-288
PacketTypeOf(v) ==
    CASE v = 0 -> "EndMarker"
      [] v = 1 -> "StartMarker"
      [] v = 2 -> "AircraftSmall"
      [] v = 3 -> "Chat"
      [] v = 4 -> "MPI"
      [] v = 5 -> "NextSegment"
      [] v = 6 -> "ECS"
      [] v = 7 -> "Snapshot"
      [] v = 8 -> "ReplayHeaderInfo"
      [] OTHER -> "Unknown"

PacketInfo(t, ts, payload) ==
    [packet_type |-> PacketTypeOf(t), timestamp_ms |-> ts, payload |-> payload]

\* (&mut reader).take(limit).read_to_end(..): the bytes still unread, at most limit
TakeReadToEnd(s, p, limit) ==
    SubSeq(s, p + 1, IF p + limit <= Len(s) THEN p + limit ELSE Len(s))

\* lines 212-229: the frame buffer after the partial read: n zeros (vec![0; n],
\* fill(0)), the bytes read_to_end appended, truncated to the count it returned
PartialBuffer(n, partial) ==
    [i \in 1 .. Len(partial) |-> IF i <= n THEN 0 ELSE partial[i - n]]

\* mutant: the newest chat message goes to the front
PushChat_Prepend(msgs, t, payload_content, ts) ==
    IF t = 3 /\ parse_chat_packet(payload_content, ts).tag = "Some"
    THEN <<parse_chat_packet(payload_content, ts)>> \o msgs
    ELSE msgs

\* lines 293-297: the chat messages after a packet of type t was recorded
PushChat(msgs, t, payload_content, ts) ==
    IF t = 3 /\ parse_chat_packet(payload_content, ts).tag = "Some"
    THEN Append(msgs, parse_chat_packet(payload_content, ts))
    ELSE msgs

\* line 275: stats.packets.push(..)
PushPacket(pkts, t, ts, payload_content) ==
    Append(pkts, PacketInfo(t, ts, payload_content))

\* Ok(stats): the ParsedReplay handed to the caller
ReturnOk(count, total, final, pkts, msgs) ==
    [tag |-> "Ok", packet_count |-> count, total_decompressed_bytes |-> total,
     final_offset |-> final, packets |-> pkts, chat_messages |-> msgs]

\* bail!(..): an error and nothing else
ReturnErr(kind) == [tag |-> "Err", kind |-> kind]

InitLoopState ==
    /\ stream = <<>>
    /\ pos = 0
    /\ last_timestamp_ms = 0
    /\ packet_count = 0
    /\ total_decompressed_bytes = 0
    /\ final_offset = 0
    /\ packets = <<>>
    /\ chat_messages = <<>>
    /\ decompressed_payload_size = 0
    /\ prefix_bytes_read = 0
    /\ packet_data_with_header = <<>>
    /\ total_bytes_read_for_payload = 0
    /\ returned = [tag |-> "Running"]
    /\ frames = <<>>

FnIdle ==
    /\ fn_input = <<>>
    /\ fn_last_ts = 0
    /\ fn_output = [tag |-> "Idle"]

\* process_replay_data is called on its own
NoCaller ==
    /\ caller = "idle"
    /\ args = [offset |-> <<>>, skip_zlib |-> FALSE, parse_results |-> FALSE]
    /\ has_wrpl_header = FALSE
    /\ header_info = <<>>
    /\ blk_calls = <<>>
    /\ blk = [pc |-> "idle"]
    /\ result = [tag |-> "Running"]

\* lengths of the padding in front of the stream
PadLens == {0, 1}

InitLoop ==
    /\ chunks \in SeqsUpTo(ChunkCatalog, MaxChunks)
    /\ cut \in 0 .. Len(Flatten(chunks))
    /\ skip_zlib \in BOOLEAN
    /\ \E k \in PadLens :
          /\ data = Pad(k) \o (IF skip_zlib THEN StreamOf(chunks, cut) ELSE ZlibBlob)
          /\ start_offset \in {k, Len(data) + 1}
    /\ pc = "start"
    /\ InitLoopState
    /\ FnIdle
    /\ NoCaller

\* mutant: an offset at the very end of the data is refused as well
OffsetBeyondEof_AtEnd(d, offset) == offset >= Len(d)

\* line 152
OffsetBeyondEof(d, offset) == offset > Len(d)

\* lines 152-175
Start ==
    /\ pc = "start"
    /\ IF OffsetBeyondEof(data, start_offset)
       THEN /\ returned' = ReturnErr("OffsetBeyondEof")
            /\ pc' = "done"
            /\ UNCHANGED <<stream, pos, last_timestamp_ms, packet_count,
                           total_decompressed_bytes, final_offset, packets,
                           chat_messages>>
       ELSE /\ stream' = create_reader(SubSeq(data, start_offset + 1, Len(data)),
                                       skip_zlib, StreamOf(chunks, cut))
            /\ pos' = 0
            /\ packet_count' = 0
            /\ total_decompressed_bytes' = 0
            /\ final_offset' = 0
            /\ packets' = <<>>
            /\ chat_messages' = <<>>
            /\ last_timestamp_ms' = 0
            /\ pc' = "prefix"
            /\ UNCHANGED returned
    /\ UNCHANGED <<data, start_offset, skip_zlib, decompressed_payload_size,
                   prefix_bytes_read, packet_data_with_header,
                   total_bytes_read_for_payload, frames, chunks, cut>>
    /\ UNCHANGED <<fnVars, callerVars>>

\* mutant: no size-prefix error is taken for the end of the stream
PrefixErrorIsEof_Never(tag) == FALSE

\* mutant: every size-prefix error is taken for the end of the stream
PrefixErrorIsEof_Always(tag) == TRUE

\* lines 191-196: an io::Error of kind UnexpectedEof ends the loop normally
PrefixErrorIsEof(tag) == tag = "UnexpectedEof"

\* line 184: the size prefix of the next frame; the io::Error of a reader
\* that cannot inflate its input comes back through the `?` of line 15
ReadPrefix(s, p) ==
    IF s = CorruptStream THEN [tag |-> "InvalidInput", pos |-> p]
    ELSE read_variable_length_size(s, p)

\* lines 183-206
ReadSizePrefix ==
    /\ pc = "prefix"
    /\ LET r == ReadPrefix(stream, pos) IN
       /\ pos' = r.pos
       /\ CASE r.tag = "Some" ->
                 /\ decompressed_payload_size' = r.size
                 /\ prefix_bytes_read' = r.bytes_read
                 /\ total_decompressed_bytes' = total_decompressed_bytes + r.bytes_read
                 /\ pc' = "payload"
                 /\ UNCHANGED returned
            [] r.tag = "None" \/ PrefixErrorIsEof(r.tag) ->
                 /\ pc' = "finish"
                 /\ UNCHANGED <<decompressed_payload_size, prefix_bytes_read,
                                total_decompressed_bytes, returned>>
            [] OTHER ->
                 /\ returned' = ReturnErr("SizePrefix")
                 /\ pc' = "done"
                 /\ UNCHANGED <<decompressed_payload_size, prefix_bytes_read,
                                total_decompressed_bytes>>
    /\ UNCHANGED <<data, start_offset, skip_zlib, stream, last_timestamp_ms,
                   packet_count, final_offset, packets, chat_messages,
                   packet_data_with_header, total_bytes_read_for_payload,
                   frames, chunks, cut>>
    /\ UNCHANGED <<fnVars, callerVars>>

\* the frame record kept for the run's history
FrameRecord(n, got, consumed) ==
    [off |-> pos - prefix_bytes_read, prefix |-> prefix_bytes_read,
     size |-> n, got |-> got, consumed |-> consumed]

\* lines 208-251
ReadPayload ==
    /\ pc = "payload"
    /\ LET n == decompressed_payload_size IN
       IF ReadExactOk(stream, pos, n)
       THEN /\ packet_data_with_header' = ReadExactBytes(stream, pos, n)
            /\ total_bytes_read_for_payload' = n
            /\ pos' = pos + n
            /\ total_decompressed_bytes' = total_decompressed_bytes + n
            /\ frames' = Append(frames, FrameRecord(n, n, n))
            /\ pc' = "packet"
       ELSE LET p1      == ReadExactPos(stream, pos, n)
                partial == TakeReadToEnd(stream, p1, n)
                got     == Len(partial)
            IN  /\ packet_data_with_header' = PartialBuffer(n, partial)
                /\ total_bytes_read_for_payload' = got
                /\ pos' = p1 + got
                /\ frames' = Append(frames, FrameRecord(n, got, p1 + got - pos))
                /\ IF got = 0
                   THEN /\ pc' = "finish"
                        /\ UNCHANGED total_decompressed_bytes
                   ELSE /\ pc' = "packet"
                        /\ total_decompressed_bytes' = total_decompressed_bytes + got
    /\ UNCHANGED <<data, start_offset, skip_zlib, stream, last_timestamp_ms,
                   packet_count, final_offset, packets, chat_messages,
                   decompressed_payload_size, prefix_bytes_read, returned,
                   chunks, cut>>
    /\ UNCHANGED <<fnVars, callerVars>>

\* mutant: the packet header is left in the payload
PayloadContent_WithHeader(buf, header_len) == buf

\* line 265: &packet_data_with_header[header_len..]
PayloadContent(buf, header_len) == SubSeq(buf, header_len + 1, Len(buf))

\* mutant: the loop forgets the timestamp it just decoded
UpdateLastTimestamp_Stale(last, ts) == last

\* line 262: last_timestamp_ms = timestamp_ms
UpdateLastTimestamp(last, ts) == ts

\* mutant: a frame without bytes ends the loop, whatever size it declared
StopsWithoutBytes_Always(size) == TRUE

\* line 316: no frame bytes were obtained although the prefix declared some
StopsWithoutBytes(size) == size > 0

\* lines 253-320
HandlePacket ==
    /\ pc = "packet"
    /\ IF total_bytes_read_for_payload > 0
       THEN LET h == read_packet_header_from_stream(packet_data_with_header, 0,
                                                    last_timestamp_ms)
                payload_content == PayloadContent(packet_data_with_header, h.bytes_read)
            IN  IF h.tag = "Some"
                THEN /\ last_timestamp_ms' = UpdateLastTimestamp(last_timestamp_ms,
                                                                 h.timestamp_ms)
                     /\ packets' = PushPacket(packets, h.packet_type, h.timestamp_ms,
                                              payload_content)
                     /\ chat_messages' = PushChat(chat_messages, h.packet_type,
                                                  payload_content, h.timestamp_ms)
                     /\ packet_count' = packet_count + 1
                     /\ pc' = "prefix"
                ELSE /\ UNCHANGED <<last_timestamp_ms, packets, chat_messages>>
                     /\ IF total_bytes_read_for_payload < decompressed_payload_size
                        THEN pc' = "finish" /\ UNCHANGED packet_count
                        ELSE pc' = "prefix" /\ packet_count' = packet_count + 1
       ELSE /\ UNCHANGED <<last_timestamp_ms, packets, chat_messages>>
            /\ IF StopsWithoutBytes(decompressed_payload_size)
               THEN pc' = "finish" /\ UNCHANGED packet_count
               ELSE pc' = "prefix" /\ packet_count' = packet_count + 1
    /\ UNCHANGED <<data, start_offset, skip_zlib, stream, pos, total_decompressed_bytes,
                   final_offset, decompressed_payload_size, prefix_bytes_read,
                   packet_data_with_header, total_bytes_read_for_payload, returned,
                   frames, chunks, cut>>
    /\ UNCHANGED <<fnVars, callerVars>>

\* mutant: the final offset is counted from the start of the stream
FinalOffset_FromStream(skip, offset, total) == IF skip THEN total ELSE 0

\* lines 327-343: the position in the input after a raw read; behind the
\* inflater the position is not known and 0 is reported
FinalOffset(skip, offset, total) == IF skip THEN offset + total ELSE 0

\* lines 323-346
Finish ==
    /\ pc = "finish"
    /\ final_offset' = FinalOffset(skip_zlib, start_offset, total_decompressed_bytes)
    /\ returned' = ReturnOk(packet_count, total_decompressed_bytes, final_offset',
                             packets, chat_messages)
    /\ pc' = "done"
    /\ UNCHANGED <<data, start_offset, skip_zlib, stream, pos, last_timestamp_ms,
                   packet_count, total_decompressed_bytes, packets, chat_messages,
                   decompressed_payload_size, prefix_bytes_read,
                   packet_data_with_header, total_bytes_read_for_payload,
                   frames, chunks, cut>>
    /\ UNCHANGED <<fnVars, callerVars>>

Next == Start \/ ReadSizePrefix \/ ReadPayload \/ HandlePacket \/ Finish

Spec == InitLoop /\ [][Next]_vars

---------------------------------------------------------------------------
(* Single calls of the codecs, on inputs drawn from bounded sets.          *)

\* the loop is not running
LoopIdle ==
    /\ data = <<>>
    /\ start_offset = 0
    /\ skip_zlib = TRUE
    /\ chunks = <<>>
    /\ cut = 0
    /\ pc = "idle"
    /\ InitLoopState
    /\ NoCaller

Pending == [tag |-> "Pending"]

\* bytes after the first one.  The fourth is kept below 128 so that a
\* little-endian u32 built from four of them stays below 2^31.
TailBytes == {0, 100, 255}

TailSeqs(n) ==
    { [i \in 1 .. Len(t) |-> IF i = 4 /\ t[i] > 127 THEN 127 ELSE t[i]] :
        t \in SeqsUpTo(TailBytes, n) }

CodecInputs == {<<>>} \cup { <<b0>> \o t : b0 \in Byte, t \in TailSeqs(MaxTail) }

InitVarSize ==
    /\ fn_input \in CodecInputs
    /\ fn_last_ts = 0
    /\ fn_output = Pending
    /\ LoopIdle

CallReadVarSize ==
    /\ fn_output = Pending
    /\ fn_output' = read_variable_length_size(fn_input, 0)
    /\ UNCHANGED <<fn_input, fn_last_ts>>
    /\ UNCHANGED <<loopVars, callerVars>>

NextVarSize == CallReadVarSize

SpecVarSize == InitVarSize /\ [][NextVarSize]_vars

\* previous timestamps handed to read_packet_header_from_stream
LastTimestamps == {0, 300}

InitPacketHeader ==
    /\ fn_input \in CodecInputs
    /\ fn_last_ts \in LastTimestamps
    /\ fn_output = Pending
    /\ LoopIdle

CallReadPacketHeader ==
    /\ fn_output = Pending
    /\ fn_output' = read_packet_header_from_stream(fn_input, 0, fn_last_ts)
    /\ UNCHANGED <<fn_input, fn_last_ts>>
    /\ UNCHANGED <<loopVars, callerVars>>

\* the codec on its own, and inside the packet loop
NextPacketHeader == CallReadPacketHeader \/ Next

SpecPacketHeader == (InitPacketHeader \/ InitLoop) /\ [][NextPacketHeader]_vars

\* bytes of a chat payload: lengths 0..2, ASCII, and the two bytes of U+00E9
ChatBytes == {0, 1, 2, 195, 169}

InitChat ==
    /\ fn_input \in SeqsUpTo(ChatBytes, MaxChatLen)
    /\ fn_last_ts = 100
    /\ fn_output = Pending
    /\ LoopIdle

CallParseChat ==
    /\ fn_output = Pending
    /\ fn_output' = parse_chat_packet(fn_input, fn_last_ts)
    /\ UNCHANGED <<fn_input, fn_last_ts>>
    /\ UNCHANGED <<loopVars, callerVars>>

NextChat == CallParseChat

SpecChat == InitChat /\ [][NextChat]_vars

---------------------------------------------------------------------------
(* Properties of the codecs.                                               *)

\* x XOR m for a one-bit mask m, by arithmetic on that bit alone
FlipBit(x, m) == IF (x \div m) % 2 = 1 THEN x - m ELSE x + m

\* a successful VarSize result with the given size and byte count
IsVarSize(r, sz, n) == r.tag = "Some" /\ r.size = sz /\ r.bytes_read = n

\* C1: read_variable_length_size classifies the first byte b0 by its leading
\* bits: 10xxxxxx gives (b0 & 0x7F, 1); 01xxxxxx gives (((b0<<8)|b1) XOR 0x4000,
\* 2); 001xxxxx gives (((b0<<16)|(b1<<8)|b2) XOR 0x200000, 3); 0001xxxx gives
\* (((b0<<24)|(b1<<16)|(b2<<8)|b3) XOR 0x10000000, 4); 0000xxxx gives the
\* little-endian u32 of b1..b4 and 5, whatever the low nibble of b0; and the
\* result is None exactly when no byte is available.
C1_VarSizeDecode ==
    fn_output # Pending =>
        LET b == fn_input
            n == Len(fn_input)
        IN  /\ (fn_output.tag = "None") <=> (n = 0)
            /\ (n >= 1 /\ b[1] \div 64 = 2) =>
                   IsVarSize(fn_output, b[1] % 128, 1)
            /\ (n >= 2 /\ b[1] \div 64 = 1) =>
                   IsVarSize(fn_output, FlipBit(b[1] * 256 + b[2], 16384), 2)
            /\ (n >= 3 /\ b[1] \div 32 = 1) =>
                   IsVarSize(fn_output,
                             FlipBit(b[1] * 65536 + b[2] * 256 + b[3], 2097152), 3)
            /\ (n >= 4 /\ b[1] \div 16 = 1) =>
                   IsVarSize(fn_output,
                             FlipBit(b[1] * 16777216 + b[2] * 65536 + b[3] * 256 + b[4],
                                     268435456), 4)
            /\ (n >= 5 /\ b[1] \div 16 = 0) =>
                   IsVarSize(fn_output,
                             b[2] + b[3] * 256 + b[4] * 65536 + b[5] * 16777216, 5)

\* a 5-byte prefix with a non-zero low nibble in b0 and a multi-byte value
C1_Witness ==
    /\ Len(fn_input) = 5
    /\ fn_input[1] = 15
    /\ fn_input[2] = 100 /\ fn_input[3] = 255
    /\ IsVarSize(fn_output, 65380, 5)

\* C2: read_packet_header_from_stream returns (b0 XOR 0x10, last_ts, 1) when
\* bit 0x10 of b0 is set, (b0, little-endian u32 of the next 4 bytes, 5) when
\* it is clear and 4 more bytes follow, and None when no byte is available;
\* the first packet of a stream inherits timestamp 0 when its flag is set.
C2_PacketHeaderDecode ==
    /\ (fn_output # Pending /\ fn_output.tag # "Idle") =>
          LET b == fn_input
              n == Len(fn_input)
          IN  /\ (fn_output.tag = "None") <=> (n = 0)
              /\ (n >= 1 /\ (b[1] \div 16) % 2 = 1) =>
                     fn_output = PacketHeaderSome(FlipBit(b[1], 16), fn_last_ts, 1)
              /\ (n >= 5 /\ (b[1] \div 16) % 2 = 0) =>
                     fn_output =
                         PacketHeaderSome(b[1],
                                          b[2] + b[3] * 256 + b[4] * 65536
                                               + b[5] * 16777216,
                                          5)
    /\ (Len(packets) >= 1 /\ Len(frames) >= 1) =>
          LET first == SelectSeq(frames, LAMBDA f : f.got > 0)[1]
              b0    == stream[first.off + first.prefix + 1]
          IN  (b0 \div 16) % 2 = 1 => packets[1].timestamp_ms = 0

\* an explicit timestamp of several bytes decoded with a non-zero last_ts
C2_Witness ==
    /\ fn_last_ts = 300
    /\ Len(fn_input) = 5
    /\ fn_input[2] = 100 /\ fn_input[3] = 255
    /\ fn_output = PacketHeaderSome(3, 65380, 5)

\* the payload is flag, sl, sl bytes of UTF-8, ml, ml bytes of UTF-8, and
\* possibly more (so sl and ml are at most the payload's length)
ChatShape(p, sl, ml) ==
    /\ Len(p) >= 3 + sl + ml
    /\ p[2] = sl
    /\ p[3 + sl] = ml
    /\ Utf8Valid(SubSeq(p, 3, 2 + sl))
    /\ Utf8Valid(SubSeq(p, 4 + sl, 3 + sl + ml))

\* C3: parse_chat_packet returns Some exactly when the payload holds a flag
\* byte, a length byte sender_len with sender_len valid UTF-8 bytes, and a
\* length byte message_len with message_len valid UTF-8 bytes, all inside the
\* payload; channel_type is present iff at least 1 byte remains after the
\* message and is_enemy iff at least 2 remain; otherwise it returns None.
C3_ChatParse ==
    fn_output # Pending =>
        LET p == fn_input IN
        /\ fn_output.tag \in {"Some", "None"}
        /\ (fn_output.tag = "Some") <=>
               (\E sl \in 0 .. Len(p), ml \in 0 .. Len(p) : ChatShape(p, sl, ml))
        /\ \A sl \in 0 .. Len(p), ml \in 0 .. Len(p) :
               ChatShape(p, sl, ml) =>
                   LET rest == SubSeq(p, 4 + sl + ml, Len(p)) IN
                   /\ fn_output.timestamp_ms = fn_last_ts
                   /\ fn_output.sender = SubSeq(p, 3, 2 + sl)
                   /\ fn_output.message = SubSeq(p, 4 + sl, 3 + sl + ml)
                   /\ fn_output.channel_type =
                          (IF Len(rest) >= 1 THEN <<rest[1]>> ELSE <<>>)
                   /\ fn_output.is_enemy =
                          (IF Len(rest) >= 2 THEN <<rest[2]>> ELSE <<>>)

\* a two-byte UTF-8 sender, an empty message and a channel byte but no enemy byte
C3_Witness ==
    /\ fn_input = <<0, 2, 195, 169, 0, 1>>
    /\ fn_output.tag = "Some"
    /\ fn_output.sender = <<195, 169>>
    /\ fn_output.channel_type = <<1>>
    /\ fn_output.is_enemy = <<>>

---------------------------------------------------------------------------
(* Properties of the packet loop.                                          *)

\* the frames of which at least one byte was obtained
NonEmptyFrames == SelectSeq(frames, LAMBDA f : f.got > 0)

\* the first byte of frame f in the stream
FrameByte0(f) == stream[f.off + f.prefix + 1]

\* frame f writes its timestamp: flag 0x10 clear and room for 4 more bytes
FrameExplicit(f) == (FrameByte0(f) \div 16) % 2 = 0 /\ f.got >= 5

\* the bytes of the packet header at the start of frame f
FrameHeaderLen(f) == IF FrameExplicit(f) THEN 5 ELSE 1

\* the timestamp written in frame f, read off the stream
FrameExplicitTs(f) ==
    LET q == f.off + f.prefix + 1 IN
    stream[q + 1] + stream[q + 2] * 256 + stream[q + 3] * 65536
                  + stream[q + 4] * 16777216

\* C4: the emitted packets correspond one-to-one and in stream order to the
\* frames read: the i-th packet comes from the i-th non-empty frame, its
\* payload is the frame's bytes after the packet header, and payload.len()
\* plus the header bytes equals the size declared by the frame's prefix.
C4_PacketsMatchFrames ==
    pc # "packet" =>
        LET ne == NonEmptyFrames IN
        /\ Len(packets) = Len(ne)
        /\ \A i \in 1 .. Len(frames) :
               frames[i].off = (IF i = 1 THEN 0
                                ELSE frames[i - 1].off + frames[i - 1].prefix
                                                       + frames[i - 1].size)
        /\ \A i \in 1 .. Len(ne) :
               LET f == ne[i]
                   h == FrameHeaderLen(f)
               IN  /\ i <= Len(packets)
                   /\ Len(packets[i].payload) + h = f.size
                   /\ f.off + f.prefix + f.size <= Len(stream)
                   /\ packets[i].payload =
                          SubSeq(stream, f.off + f.prefix + h + 1,
                                 f.off + f.prefix + f.size)

\* two packets, the second with a 5-byte header and a payload
C4_Witness ==
    /\ pc = "done"
    /\ returned.tag = "Ok"
    /\ Len(returned.packets) = 2
    /\ Len(frames) = 2
    /\ FrameHeaderLen(frames[2]) = 5
    /\ returned.packets[2].payload = <<7>>

\* the chat messages a sequence of packets gives rise to
RECURSIVE ChatImage(_)
ChatImage(ps) ==
    IF Len(ps) = 0 THEN <<>>
    ELSE LET c == parse_chat_packet(Head(ps).payload, Head(ps).timestamp_ms) IN
         (IF Head(ps).packet_type = "Chat" /\ c.tag = "Some" THEN <<c>> ELSE <<>>)
             \o ChatImage(Tail(ps))

\* C5: chat_messages is the order-preserving image of the Chat packets whose
\* payload parsed: same relative order, at most one message per packet, and
\* each message carries the timestamp_ms of the packet that produced it.
C5_ChatFollowsPackets == chat_messages = ChatImage(packets)

\* two different messages, both at the timestamp the first packet wrote
C5_Witness ==
    /\ pc = "done"
    /\ Len(packets) = 2
    /\ Len(chat_messages) = 2
    /\ chat_messages[1].timestamp_ms = 100
    /\ chat_messages[1].sender = <<>>
    /\ chat_messages[2].timestamp_ms = 100
    /\ chat_messages[2].sender = <<65>>

NonDecreasing(ps) ==
    \A i \in 2 .. Len(ps) : ps[i - 1].timestamp_ms <= ps[i].timestamp_ms

\* C6 as stated: for every stream the timestamps of the emitted packets are
\* non-decreasing.
C6_Original == NonDecreasing(packets)

\* the timestamp in force after the first i non-empty frames, read off the stream
RECURSIVE TsInForce(_, _)
TsInForce(ne, i) ==
    IF i = 0 THEN 0
    ELSE IF FrameExplicit(ne[i]) THEN FrameExplicitTs(ne[i])
    ELSE TsInForce(ne, i - 1)

\* C6 amended: a packet whose timestamp is elided has the timestamp of the
\* packet before it (0 for the first), and the sequence is non-decreasing for
\* every stream in which each timestamp written in a header is at least the
\* timestamp in force before it.
C6_TimestampsFollowStream ==
    pc # "packet" =>
        LET ne == NonEmptyFrames IN
        /\ Len(packets) = Len(ne)
        /\ \A i \in 1 .. Len(packets) :
               ~FrameExplicit(ne[i]) =>
                   packets[i].timestamp_ms =
                       (IF i = 1 THEN 0 ELSE packets[i - 1].timestamp_ms)
        /\ (\A i \in 1 .. Len(ne) :
                FrameExplicit(ne[i]) => FrameExplicitTs(ne[i]) >= TsInForce(ne, i - 1))
               => NonDecreasing(packets)

\* an explicit timestamp followed by an elided one
C6_Witness ==
    /\ pc = "done"
    /\ Len(packets) = 2
    /\ FrameExplicit(NonEmptyFrames[1])
    /\ ~FrameExplicit(NonEmptyFrames[2])
    /\ packets[1].timestamp_ms = 306
    /\ packets[2].timestamp_ms = 306

\* C7 as stated: when process_replay_data returns successfully,
\* packets.len() equals packet_count, zero-size frames included.
C7_Original ==
    (pc = "done" /\ returned.tag = "Ok") =>
        Len(returned.packets) = returned.packet_count

RECURSIVE SumFrameBytes(_)
SumFrameBytes(fs) ==
    IF Len(fs) = 0 THEN 0
    ELSE Head(fs).prefix + Head(fs).consumed + SumFrameBytes(Tail(fs))

\* C8 as stated: when the whole stream has been consumed,
\* total_decompressed_bytes is the sum over the frames of the prefix bytes and
\* the frame bytes read, also when the last frame is cut short.
C8_Original ==
    (pc = "done" /\ returned.tag = "Ok" /\ pos = Len(stream)) =>
        returned.total_decompressed_bytes = SumFrameBytes(frames)

\* the bodies of the non-empty pieces that lie wholly in the first c bytes
RECURSIVE CompleteBodies(_, _)
CompleteBodies(cs, c) ==
    IF Len(cs) = 0 \/ Len(ChunkBytes(Head(cs))) > c THEN <<>>
    ELSE (IF Len(Head(cs).body) = 0 THEN <<>> ELSE <<Head(cs).body>>)
             \o CompleteBodies(Tail(cs), c - Len(ChunkBytes(Head(cs))))

\* payload is body without a packet header of 1 or 5 bytes
IsPayloadOf(payload, body) ==
    \E h \in {1, 5} :
        /\ Len(payload) + h = Len(body)
        /\ payload = SubSeq(body, h + 1, Len(body))

AllFrames(cs) == \A i \in 1 .. Len(cs) : cs[i].kind = "frame"

\* C9: a stream of frames truncated at any point, inside a size prefix or
\* inside a frame, ends the loop normally: the call returns Ok and the result
\* holds the packets of all the complete frames before the truncation.
C9_TruncationReturnsOk ==
    (pc = "done" /\ start_offset <= Len(data) /\ AllFrames(chunks)) =>
        /\ returned.tag = "Ok"
        /\ LET bodies == CompleteBodies(chunks, cut) IN
           /\ Len(returned.packets) = Len(bodies)
           /\ \A i \in 1 .. Len(bodies) :
                  IsPayloadOf(returned.packets[i].payload, bodies[i])

\* a stream cut inside the second piece's 2-byte size prefix, after one frame
C9_Witness ==
    /\ pc = "done"
    /\ Len(chunks) = 2
    /\ AllFrames(chunks)
    /\ chunks[2].prefix = <<64, 2>>
    /\ Len(chunks[1].body) > 0
    /\ cut = Len(ChunkBytes(chunks[1])) + 1
    /\ returned.tag = "Ok"
    /\ Len(returned.packets) = 1

\* the pieces up to the first raw 0xC0 are frames, and the 0xC0 is in the stream
InvalidPrefixAtBoundary ==
    \E i \in 1 .. Len(chunks) :
        /\ chunks[i].prefix = <<192>>
        /\ AllFrames(SubSeq(chunks, 1, i - 1))
        /\ Len(Flatten(SubSeq(chunks, 1, i))) <= cut

\* C10: a size prefix whose first byte is 11xxxxxx is rejected whatever bytes
\* follow, and at a frame boundary of the packet loop the whole decode fails:
\* an error and no partial result, even if packets were decoded before it.
C10_InvalidPrefixIsFatal ==
    /\ (fn_output # Pending /\ fn_output.tag # "Idle"
            /\ Len(fn_input) >= 1 /\ fn_input[1] >= 192) =>
          (fn_output.tag = "InvalidPrefix" /\ fn_output.size = 0)
    /\ (pc = "done" /\ start_offset <= Len(data) /\ InvalidPrefixAtBoundary) =>
          (returned.tag = "Err" /\ DOMAIN returned = {"tag", "kind"})

\* a packet was decoded, then the invalid prefix failed the call
C10_Witness ==
    /\ pc = "done"
    /\ InvalidPrefixAtBoundary
    /\ Len(packets) = 1
    /\ returned = ReturnErr("SizePrefix")

\* the size-prefix codec on its own, and inside the packet loop
NextVarSizeLoop == CallReadVarSize \/ Next

SpecVarSizeLoop == (InitVarSize \/ InitLoop) /\ [][NextVarSizeLoop]_vars

---------------------------------------------------------------------------
(* The size-prefix codec on the encodings of chosen sizes.                 *)

\* sizes around the limits of the length classes (6, 14, 21, 28 value bits)
\* and up to the largest integer of the model
RoundTripSizes ==
    (0 .. 70) \cup (120 .. 130) \cup (16380 .. 16390)
        \cup (2097148 .. 2097156) \cup (268435452 .. 268435460)
        \cup {255, 256, 65535, 65536, 16777215, 16777216, 2147483647}

\* The writer's side of the format, which the decoder has no code for: n in
\* the shortest length class whose value bits can hold it, under the tag bits
\* 10, 01, 001, 0001, or a zero byte and the little-endian u32.
VarSizeEncode(n) ==
    IF n < 64 THEN <<128 + n>>
    ELSE IF n < 16384 THEN <<64 + (n \div 256), n % 256>>
    ELSE IF n < 2097152
         THEN <<32 + (n \div 65536), (n \div 256) % 256, n % 256>>
    ELSE IF n < 268435456
         THEN <<16 + (n \div 16777216), (n \div 65536) % 256,
                (n \div 256) % 256, n % 256>>
    ELSE <<0, n % 256, (n \div 256) % 256, (n \div 65536) % 256, n \div 16777216>>

InitRoundTrip ==
    /\ fn_input \in { VarSizeEncode(n) : n \in RoundTripSizes }
    /\ fn_last_ts = 0
    /\ fn_output = Pending
    /\ LoopIdle

SpecRoundTrip == InitRoundTrip /\ [][NextVarSize]_vars

\* C11: VarSize round trip: a size n encoded in the shortest length class
\* that can hold it decodes to n, and the decoder consumes exactly the bytes
\* of the encoding.
C11_RoundTrip ==
    fn_output # Pending =>
        \A n \in RoundTripSizes :
            fn_input = VarSizeEncode(n) =>
                IsVarSize(fn_output, n, Len(fn_input))

\* 64 is the first size the one-byte class cannot hold: two bytes, decoded
C11_Witness ==
    /\ fn_input = VarSizeEncode(64)
    /\ Len(fn_input) = 2
    /\ IsVarSize(fn_output, 64, 2)

\* C12 as stated: the byte 0xFF decodes to size 127 with 1 byte consumed,
\* just as 0x80 decodes to size 0 with 1 byte consumed.
C12_Original ==
    fn_output # Pending =>
        /\ (fn_input = <<255>>) => IsVarSize(fn_output, 127, 1)
        /\ (fn_input = <<128>>) => IsVarSize(fn_output, 0, 1)

\* C12: the one-byte class is 10xxxxxx and yields the sizes 0..63: 0xBF
\* decodes to size 63 and 0x80 to size 0, each with 1 byte consumed, while
\* 0xFF, like every 11xxxxxx byte, is rejected as an invalid prefix.
C12_OneByteClass ==
    fn_output # Pending =>
        /\ (fn_input = <<191>>) => IsVarSize(fn_output, 63, 1)
        /\ (fn_input = <<128>>) => IsVarSize(fn_output, 0, 1)
        /\ (fn_input = <<255>>) => fn_output.tag = "InvalidPrefix"
        /\ (fn_output.tag = "Some" /\ fn_output.bytes_read = 1) =>
               fn_output.size <= 63

\* the largest one-byte prefix, decoded
C12_Witness ==
    /\ fn_input = <<191>>
    /\ IsVarSize(fn_output, 63, 1)

---------------------------------------------------------------------------
(* header.rs: parse_header.  The file is the sequence of its bytes; the    *)
(* path names a file that can be opened.                                   *)

\* Difficulty::from_byte
Difficulty_from_byte(byte) ==
    [unknown_nibble |-> BitAnd(byte \div 16, 15),
     difficulty_value |-> BitAnd(byte, 15)]

\* u64::from_le_bytes, kept as its two 32-bit halves
u64_from_le_bytes(b) ==
    [lo |-> u32_from_le_bytes(b[1], b[2], b[3], b[4]),
     hi |-> u32_from_le_bytes(b[5], b[6], b[7], b[8])]

\* String::from_utf8_lossy (core::str::lossy::Utf8Chunks): a string is the
\* sequence of its code points; every maximal ill-formed piece becomes U+FFFD
ReplacementChar == 65533

Utf8CharWidth(c) ==
    IF c >= 194 /\ c <= 223 THEN 2
    ELSE IF c >= 224 /\ c <= 239 THEN 3
    ELSE IF c >= 240 /\ c <= 244 THEN 4
    ELSE 0

SafeGet(b, i) == IF i <= Len(b) THEN b[i] ELSE 0

Utf8Second3(c, x) ==
    \/ c = 224 /\ x >= 160 /\ x <= 191
    \/ c >= 225 /\ c <= 236 /\ IsCont(x)
    \/ c = 237 /\ x >= 128 /\ x <= 159
    \/ c >= 238 /\ c <= 239 /\ IsCont(x)

Utf8Second4(c, x) ==
    \/ c = 240 /\ x >= 144 /\ x <= 191
    \/ c >= 241 /\ c <= 243 /\ IsCont(x)
    \/ c = 244 /\ x >= 128 /\ x <= 143

\* the piece that starts at byte i: how many bytes it takes and what it gives
Utf8Chunk(b, i) ==
    LET c == b[i]
        w == Utf8CharWidth(c)
        x == SafeGet(b, i + 1)
        y == SafeGet(b, i + 2)
        z == SafeGet(b, i + 3)
        bad(n) == [len |-> n, cp |-> ReplacementChar]
    IN  IF c <= 127 THEN [len |-> 1, cp |-> c]
        ELSE IF w = 2
             THEN IF ~IsCont(x) THEN bad(1)
                  ELSE [len |-> 2, cp |-> (c - 192) * 64 + (x - 128)]
        ELSE IF w = 3
             THEN IF ~Utf8Second3(c, x) THEN bad(1)
                  ELSE IF ~IsCont(y) THEN bad(2)
                  ELSE [len |-> 3,
                        cp |-> (c - 224) * 4096 + (x - 128) * 64 + (y - 128)]
        ELSE IF w = 4
             THEN IF ~Utf8Second4(c, x) THEN bad(1)
                  ELSE IF ~IsCont(y) THEN bad(2)
                  ELSE IF ~IsCont(z) THEN bad(3)
                  ELSE [len |-> 4,
                        cp |-> (c - 240) * 262144 + (x - 128) * 4096
                               + (y - 128) * 64 + (z - 128)]
        ELSE bad(1)

\* at most k pieces from byte i on: what they give and where the next starts
RECURSIVE Utf8Run(_, _, _)
Utf8Run(b, i, k) ==
    IF k = 0 \/ i > Len(b) THEN [out |-> <<>>, next |-> i]
    ELSE LET ch == Utf8Chunk(b, i)
             r == Utf8Run(b, i + ch.len, k - 1)
         IN  [out |-> <<ch.cp>> \o r.out, next |-> r.next]

\* the pieces are taken in runs of 16, which keeps the evaluation shallow
RECURSIVE from_utf8_lossy_at(_, _)
from_utf8_lossy_at(b, i) ==
    IF i > Len(b) THEN <<>>
    ELSE LET r == Utf8Run(b, i, 16)
         IN  r.out \o from_utf8_lossy_at(b, r.next)

from_utf8_lossy(b) == from_utf8_lossy_at(b, 1)

\* buffer.iter().position(|&b| b == 0).unwrap_or(max_len)
NullPos(buffer) ==
    IF \E i \in 1 .. Len(buffer) : buffer[i] = 0
    THEN (CHOOSE i \in 1 .. Len(buffer) :
              buffer[i] = 0 /\ \A j \in 1 .. i - 1 : buffer[j] # 0) - 1
    ELSE Len(buffer)

\* read_string, once its max_len bytes have been read
read_string(buffer) == from_utf8_lossy(SubSeq(buffer, 1, NullPos(buffer)))

\* mutant: the reserved bytes skipped one short
SeekCurrent_Short(p, n) == p + n - 1

\* file.seek(SeekFrom::Current(n)); seeking past the end of a file is no error
SeekCurrent(p, n) == p + n

\* parse_header, statement by statement
HeaderSteps ==
    << [op |-> "u32",  field |-> "magic",              n |-> 4],
       [op |-> "u32",  field |-> "version",            n |-> 4],
       [op |-> "str",  field |-> "level",              n |-> 128],
       [op |-> "str",  field |-> "level_settings",     n |-> 260],
       [op |-> "str",  field |-> "battle_type",        n |-> 128],
       [op |-> "str",  field |-> "environment",        n |-> 128],
       [op |-> "str",  field |-> "visibility",         n |-> 32],
       [op |-> "u32",  field |-> "rez_offset",         n |-> 4],
       [op |-> "diff", field |-> "difficulty",         n |-> 1],
       [op |-> "seek", field |-> "",                   n |-> 35],
       [op |-> "u32",  field |-> "session_type",       n |-> 4],
       [op |-> "seek", field |-> "",                   n |-> 4],
       [op |-> "u64",  field |-> "session_id_hex",     n |-> 8],
       [op |-> "seek", field |-> "",                   n |-> 4],
       [op |-> "u32",  field |-> "m_set_size",         n |-> 4],
       [op |-> "seek", field |-> "",                   n |-> 32],
       [op |-> "str",  field |-> "loc_name",           n |-> 128],
       [op |-> "u32",  field |-> "start_time",         n |-> 4],
       [op |-> "u32",  field |-> "time_limit",         n |-> 4],
       [op |-> "u32",  field |-> "score_limit",        n |-> 4],
       [op |-> "seek", field |-> "",                   n |-> 48],
       [op |-> "str",  field |-> "battle_class",       n |-> 128],
       [op |-> "str",  field |-> "battle_kill_streak", n |-> 128] >>

\* the value a read statement assigns
HeaderValue(op, b) ==
    CASE op = "u32"  -> u32_from_le_bytes(b[1], b[2], b[3], b[4])
      [] op = "u64"  -> u64_from_le_bytes(b)
      [] op = "diff" -> Difficulty_from_byte(b[1])
      [] OTHER       -> read_string(b)

HeaderErr(kind) == [tag |-> "Err", kind |-> kind]
HeaderOk(h) == [tag |-> "Ok", header |-> h]

\* statements k.. of parse_header with the file cursor at p; every
\* read_exact that fails returns its error through `?`
RECURSIVE RunHeaderSteps(_, _, _, _)
RunHeaderSteps(file, k, p, acc) ==
    IF k > Len(HeaderSteps) THEN HeaderOk(acc)
    ELSE LET st == HeaderSteps[k] IN
         IF st.op = "seek"
         THEN RunHeaderSteps(file, k + 1, SeekCurrent(p, st.n), acc)
         ELSE IF ~ReadExactOk(file, p, st.n)
              THEN HeaderErr("UnexpectedEof")
              ELSE RunHeaderSteps(
                       file, k + 1, p + st.n,
                       acc @@ (st.field :>
                                   HeaderValue(st.op, ReadExactBytes(file, p, st.n))))

parse_header(file) == RunHeaderSteps(file, 1, 0, [x \in {} |-> 0])

---------------------------------------------------------------------------
(* Single calls of parse_header.                                           *)

\* file lengths around the ends of the fields and of the header
HeaderLens ==
    {0, 2, 4, 8, 688, 689, 724, 1096, 1151, 1152, 1153, 1223, 1224, 1225, 1300}

HeaderPatterns == {"zero", "ff", "text", "utf8", "utf8odd"}

\* bytes written into the reserved gaps
GapBytes == {0, 9, 127}

InGap(o) ==
    \/ o >= 689 /\ o < 724
    \/ o >= 728 /\ o < 732
    \/ o >= 740 /\ o < 744
    \/ o >= 748 /\ o < 780
    \/ o >= 920 /\ o < 968

InNumber(o) ==
    \/ o < 8
    \/ o >= 684 /\ o < 688
    \/ o >= 724 /\ o < 728
    \/ o >= 732 /\ o < 740
    \/ o >= 744 /\ o < 748
    \/ o >= 908 /\ o < 920

\* The byte at offset o.  The two high bytes of every integer field stay
\* below 128, so that the integers stay below 2^31.
HeaderByte(pat, gap, o) ==
    IF InGap(o) THEN gap
    ELSE IF InNumber(o) /\ o % 4 >= 2 THEN o % 100
    ELSE CASE pat = "zero"    -> 0
           [] pat = "ff"      -> 255
           [] pat = "text"    -> IF o % 41 = 40 THEN 0 ELSE 97 + (o % 26)
           [] pat = "utf8"    -> IF o % 2 = 0 THEN 195 ELSE 169
           [] OTHER           -> IF o % 2 = 1 THEN 195 ELSE 169

HeaderFile(len, pat, gap) == [i \in 1 .. len |-> HeaderByte(pat, gap, i - 1)]

InitHeader ==
    /\ fn_input \in { HeaderFile(len, pat, gap) :
                        len \in HeaderLens, pat \in HeaderPatterns, gap \in GapBytes }
    /\ fn_last_ts = 0
    /\ fn_output = Pending
    /\ LoopIdle

CallParseHeader ==
    /\ fn_output = Pending
    /\ fn_output' = parse_header(fn_input)
    /\ UNCHANGED <<fn_input, fn_last_ts>>
    /\ UNCHANGED <<loopVars, callerVars>>

NextHeader == CallParseHeader

SpecHeader == InitHeader /\ [][NextHeader]_vars

\* C13 as stated: the header is 1,152 bytes long: parse_header fails exactly
\* when the input has fewer than 1,152 bytes.
C13_Original ==
    fn_output # Pending =>
        ((fn_output.tag = "Err") <=> (Len(fn_input) < 1152))

\* C13: the fixed header is 1,224 bytes long: parse_header fails (a read ends
\* at the end of the file) exactly when the input has fewer than 1,224 bytes,
\* and succeeds on every longer input whatever its bytes.
C13_HeaderLength ==
    fn_output # Pending =>
        /\ (fn_output.tag = "Err") <=> (Len(fn_input) < 1224)
        /\ (fn_output.tag = "Ok") <=> (Len(fn_input) >= 1224)
        /\ (fn_output.tag = "Err") => fn_output.kind = "UnexpectedEof"

\* a file of exactly the header's length, none of its strings well-formed
C13_Witness ==
    /\ Len(fn_input) = 1224
    /\ fn_input[9] = 255
    /\ fn_output.tag = "Ok"
    /\ fn_output.header.level[1] = ReplacementChar

\* the integer and the string a header field is read from
U32At(f, o) == f[o + 1] + 256 * f[o + 2] + 65536 * f[o + 3] + 16777216 * f[o + 4]

NulPrefix(b) ==
    LET nuls == { i \in 1 .. Len(b) : b[i] = 0 }
    IN  IF nuls = {} THEN b
        ELSE SubSeq(b, 1, (CHOOSE i \in nuls : \A j \in nuls : i <= j) - 1)

StrAt(f, o, w) == from_utf8_lossy(NulPrefix(SubSeq(f, o + 1, o + w)))

ZeroGaps(f) == [i \in 1 .. Len(f) |-> IF InGap(i - 1) THEN 0 ELSE f[i]]

\* C14: every field is decoded from the offset that is the sum of the widths
\* before it, the reserved gaps of 35, 4, 4, 32 and 48 bytes included; the
\* bytes of the gaps influence no field; a string field is the part of its
\* slot before the first NUL, the whole slot when it holds none.
C14_FieldOffsets ==
    (fn_output # Pending /\ fn_output.tag = "Ok") =>
        LET f == fn_input
            h == fn_output.header
        IN  /\ h.magic = U32At(f, 0)
            /\ h.version = U32At(f, 4)
            /\ h.level = StrAt(f, 8, 128)
            /\ h.level_settings = StrAt(f, 136, 260)
            /\ h.battle_type = StrAt(f, 396, 128)
            /\ h.environment = StrAt(f, 524, 128)
            /\ h.visibility = StrAt(f, 652, 32)
            /\ h.rez_offset = U32At(f, 684)
            /\ h.difficulty.difficulty_value = f[689] % 16
            /\ h.difficulty.unknown_nibble = f[689] \div 16
            /\ h.session_type = U32At(f, 724)
            /\ h.session_id_hex.lo = U32At(f, 732)
            /\ h.session_id_hex.hi = U32At(f, 736)
            /\ h.m_set_size = U32At(f, 744)
            /\ h.loc_name = StrAt(f, 780, 128)
            /\ h.start_time = U32At(f, 908)
            /\ h.time_limit = U32At(f, 912)
            /\ h.score_limit = U32At(f, 916)
            /\ h.battle_class = StrAt(f, 968, 128)
            /\ h.battle_kill_streak = StrAt(f, 1096, 128)
            /\ fn_output = parse_header(ZeroGaps(f))

\* a header with bytes in its gaps and after the NUL of a string
C14_Witness ==
    /\ fn_output # Pending
    /\ fn_output.tag = "Ok"
    /\ fn_input[690] = 127
    /\ Len(fn_output.header.level) = 32
    /\ fn_input[9 + 33] # 0
    /\ fn_output.header.battle_kill_streak # <<>>

---------------------------------------------------------------------------
(* parse_replay_results_json.  A serde_json::Value is a record: t is its    *)
(* kind, and a field named after the kind holds its content.  A string is  *)
(* the sequence of its characters; an object is the sequence of its        *)
(* entries in the order the map iterates them; Option<T> is a sequence of  *)
(* length 0 or 1; an f64 is counted in halves, so that 7.5 is 15.          *)

None == <<>>
Some(x) == <<x>>

JNull == [t |-> "null"]
JBool(b) == [t |-> "bool", bool |-> b]
JPosInt(n) == [t |-> "posint", posint |-> n]      \* the integer n >= 0
JNegInt(n) == [t |-> "negint", negint |-> n]      \* the integer -n < 0
JFloat(h) == [t |-> "float", float |-> h]         \* the float h / 2
JStr(s) == [t |-> "str", str |-> s]
JArr(a) == [t |-> "arr", arr |-> a]
JObj(entries) == [t |-> "obj", obj |-> entries]
JEntry(k, v) == [k |-> k, v |-> v]
\* a text serde_json::from_str rejects
JInvalid == [t |-> "invalid"]

\* Map::get
Get(entries, key) ==
    LET idx == { i \in 1 .. Len(entries) : entries[i].k = key }
    IN  IF idx = {} THEN None ELSE Some(entries[CHOOSE i \in idx : TRUE].v)

\* mutant: a number is taken for a string, as its decimal digits would be
as_str_Lenient(o) ==
    IF o # None /\ o[1].t = "str" THEN Some(o[1].str)
    ELSE IF o # None /\ o[1].t = "posint" /\ o[1].posint < 10
         THEN Some(<< <<"0", "1", "2", "3", "4", "5", "6", "7", "8", "9">>[o[1].posint + 1] >>)
    ELSE None

\* .and_then(|v| v.as_str()) and its siblings, on the Option that get returns
as_str(o) == IF o # None /\ o[1].t = "str" THEN Some(o[1].str) ELSE None
as_object(o) == IF o # None /\ o[1].t = "obj" THEN Some(o[1].obj) ELSE None
as_array(o) == IF o # None /\ o[1].t = "arr" THEN Some(o[1].arr) ELSE None
as_bool(o) == IF o # None /\ o[1].t = "bool" THEN Some(o[1].bool) ELSE None
as_u64(o) == IF o # None /\ o[1].t = "posint" THEN Some(o[1].posint) ELSE None
as_i64(o) ==
    IF o # None /\ o[1].t = "posint" THEN Some(o[1].posint)
    ELSE IF o # None /\ o[1].t = "negint" THEN Some(0 - o[1].negint)
    ELSE None
as_f64(o) ==
    IF o # None /\ o[1].t = "posint" THEN Some(2 * o[1].posint)
    ELSE IF o # None /\ o[1].t = "negint" THEN Some(0 - 2 * o[1].negint)
    ELSE IF o # None /\ o[1].t = "float" THEN Some(o[1].float)
    ELSE None

unwrap_or(o, default) == IF o = None THEN default ELSE o[1]

Digits == <<"0", "1", "2", "3", "4", "5", "6", "7", "8", "9">>

IsDigit(c) == \E d \in 1 .. 10 : Digits[d] = c
DigitValue(c) == (CHOOSE d \in 1 .. 10 : Digits[d] = c) - 1

\* u64::to_string
RECURSIVE to_string(_)
to_string(n) ==
    IF n < 10 THEN <<Digits[n + 1]>>
    ELSE to_string(n \div 10) \o <<Digits[(n % 10) + 1]>>

RECURSIVE DigitsValue(_, _)
DigitsValue(s, acc) ==
    IF Len(s) = 0 THEN acc ELSE DigitsValue(Tail(s), 10 * acc + DigitValue(Head(s)))

\* str::parse::<u64>: an optional '+', then one digit or more and nothing
\* else.  The strings of the model are too short to overflow a u64.
parse_u64(s) ==
    LET digits == IF Len(s) >= 1 /\ s[1] = "+" THEN Tail(s) ELSE s
    IN  IF Len(digits) = 0 \/ \E i \in 1 .. Len(digits) : ~IsDigit(digits[i])
        THEN None
        ELSE Some(DigitsValue(digits, 0))

\* lines 770-774, 808-812, 845-851: does this playersInfo value go with the
\* player's userId
InfoMatches(info_value, user_id_str) ==
    /\ info_value.t = "obj"
    /\ LET info_id == unwrap_or(as_u64(Get(info_value.obj, "id")), 0)
       IN  \/ to_string(info_id) = user_id_str
           \/ unwrap_or(parse_u64(user_id_str), 0) = info_id

\* the loop over players_info with its break: the first value that matches
FirstMatch(players_info, user_id_str) ==
    LET idx == { i \in 1 .. Len(players_info) :
                    InfoMatches(players_info[i].v, user_id_str) }
    IN  IF idx = {} THEN None
        ELSE Some(players_info[CHOOSE i \in idx : \A j \in idx : i <= j].v.obj)

StrField(entries, key) == unwrap_or(as_str(Get(entries, key)), <<>>)

\* .and_then(|v| v.as_i64()).unwrap_or(0) as i32; the integers of the model
\* are within i32, where the cast changes nothing
IntField(entries, key) == unwrap_or(as_i64(Get(entries, key)), 0)

\* lines 776-798
PlayerInfo(user_id_str, info_obj) ==
    [user_id |-> user_id_str,
     username |-> StrField(info_obj, "name"),
     squadron_id |-> StrField(info_obj, "clanId"),
     squadron_tag |-> StrField(info_obj, "squadronTag"),
     platform |-> StrField(info_obj, "platform")]

\* lines 814-822: the craft names of the matched info, in map order
Lineup(info_obj) ==
    LET crafts == as_object(Get(info_obj, "crafts"))
    IN  IF crafts = None THEN <<>>
        ELSE LET names == SelectSeq(crafts[1], LAMBDA e : e.v.t = "str")
             IN  [i \in 1 .. Len(names) |-> names[i].v.str]

\* lines 828-929; wait_time is an f64 narrowed to f32, exact for the halves
\* of the model
PlayerReplayData(user_id_str, player_obj, info_obj) ==
    [user_id |-> user_id_str,
     squad |-> IntField(player_obj, "squadId"),
     auto_squad |-> unwrap_or(as_bool(Get(player_obj, "autoSquad")), FALSE),
     team |-> IntField(player_obj, "team"),
     wait_time |-> unwrap_or(as_f64(Get(info_obj, "wait_time")), 0),
     kills |-> IntField(player_obj, "kills"),
     ground_kills |-> IntField(player_obj, "groundKills"),
     naval_kills |-> IntField(player_obj, "navalKills"),
     team_kills |-> IntField(player_obj, "teamKills"),
     ai_kills |-> IntField(player_obj, "aiKills"),
     ai_ground_kills |-> IntField(player_obj, "aiGroundKills"),
     ai_naval_kills |-> IntField(player_obj, "aiNavalKills"),
     assists |-> IntField(player_obj, "assists"),
     deaths |-> IntField(player_obj, "deaths"),
     capture_zone |-> IntField(player_obj, "captureZone"),
     damage_zone |-> IntField(player_obj, "damageZone"),
     score |-> IntField(player_obj, "score"),
     award_damage |-> IntField(player_obj, "awardDamage"),
     missile_evades |-> IntField(player_obj, "missileEvades"),
     lineup |-> Lineup(info_obj)]

\* lines 759-936: what one element of the player array adds to `players`
PlayerDataOf(player_data, players_info) ==
    IF player_data.t # "obj" THEN <<>>
    ELSE LET player_obj == player_data.obj
             user_id_str == unwrap_or(as_str(Get(player_obj, "userId")), <<>>)
             info == FirstMatch(players_info, user_id_str)
         IN  IF info = None THEN <<>>
             ELSE << [player_info |-> PlayerInfo(user_id_str, info[1]),
                      replay_data |->
                          PlayerReplayData(user_id_str, player_obj, info[1])] >>

RECURSIVE CollectPlayers(_, _)
CollectPlayers(player_array, players_info) ==
    IF Len(player_array) = 0 THEN <<>>
    ELSE PlayerDataOf(Head(player_array), players_info)
             \o CollectPlayers(Tail(player_array), players_info)

\* lines 750-940
PlayersOf(obj) ==
    LET player_array == as_array(Get(obj, "player"))
        ui_scripts_data == as_object(Get(obj, "uiScriptsData"))
    IN  IF player_array = None \/ ui_scripts_data = None THEN <<>>
        ELSE LET players_info == as_object(Get(ui_scripts_data[1], "playersInfo"))
             IN  IF players_info = None THEN <<>>
                 ELSE CollectPlayers(player_array[1], players_info[1])

Str_unknown == <<"u", "n", "k", "n", "o", "w", "n">>
Str_minus1 == <<"-", "1">>
Str_server == <<"s", "e", "r", "v", "e", "r">>

JsonErr(kind) == [tag |-> "Err", kind |-> kind]

\* json is what serde_json::from_str makes of the text: a value, or JInvalid
parse_replay_results_json(json) ==
    IF json = JInvalid THEN JsonErr("Failed to parse JSON")
    ELSE IF json.t # "obj" THEN JsonErr("Root JSON is not an object")
    ELSE LET obj == json.obj
         IN  [tag |-> "Ok",
              status |-> unwrap_or(as_str(Get(obj, "status")), Str_unknown),
              time_played |-> unwrap_or(as_f64(Get(obj, "timePlayed")), 0),
              author_user_id |->
                  unwrap_or(as_str(Get(obj, "authorUserId")), Str_minus1),
              author |-> unwrap_or(as_str(Get(obj, "author")), Str_server),
              players |-> PlayersOf(obj)]

---------------------------------------------------------------------------
(* Single calls of parse_replay_results_json.                              *)

\* elements of the `player` array of an input
MaxPlayers == 2
\* entries of the `playersInfo` object of an input
MaxInfos == 2

\* what an element of `player` has for a userId
PlayerKinds == {"none", "s7", "s07", "s0", "sx", "n7", "null"}

\* The i-th element of `player`; its kills field tells the elements apart.
PlayerElem(kind, i) ==
    LET rest == <<JEntry("kills", JPosInt(i)), JEntry("team", JNegInt(1))>>
    IN  CASE kind = "none" -> JObj(rest)
          [] kind = "s7"   -> JObj(<<JEntry("userId", JStr(<<"7">>))>> \o rest)
          [] kind = "s07"  -> JObj(<<JEntry("userId", JStr(<<"0", "7">>))>> \o rest)
          [] kind = "s0"   -> JObj(<<JEntry("userId", JStr(<<"0">>))>> \o rest)
          [] kind = "sx"   -> JObj(<<JEntry("userId", JStr(<<"x">>))>> \o rest)
          [] kind = "n7"   -> JObj(<<JEntry("userId", JPosInt(7))>> \o rest)
          [] OTHER         -> JNull

\* what an entry of `playersInfo` has for an id
InfoKinds == {"id7", "id0", "noid", "sid7", "null"}

InfoKeys == <<"k1", "k2", "k3">>

InfoEntry(kind, i) ==
    LET rest == <<JEntry("name", JStr(<<Digits[i + 1]>>)),
                  JEntry("wait_time", JFloat(3)),
                  JEntry("crafts", JObj(<<JEntry("c1", JStr(<<"a">>)),
                                          JEntry("c2", JPosInt(1)),
                                          JEntry("c3", JStr(<<"b">>))>>))>>
    IN  JEntry(InfoKeys[i],
               CASE kind = "id7"  -> JObj(<<JEntry("id", JPosInt(7))>> \o rest)
                 [] kind = "id0"  -> JObj(<<JEntry("id", JPosInt(0))>> \o rest)
                 [] kind = "noid" -> JObj(rest)
                 [] kind = "sid7" -> JObj(<<JEntry("id", JStr(<<"7">>))>> \o rest)
                 [] OTHER         -> JNull)

PlayerArrays ==
    { [i \in 1 .. Len(ks) |-> PlayerElem(ks[i], i)] : ks \in SeqsUpTo(PlayerKinds, MaxPlayers) }

InfoObjects ==
    { [i \in 1 .. Len(ks) |-> InfoEntry(ks[i], i)] : ks \in SeqsUpTo(InfoKinds, MaxInfos) }

\* inputs that vary the players and the playersInfo
MatchInputs ==
    { JObj(<<JEntry("player", JArr(ps)),
             JEntry("uiScriptsData", JObj(<<JEntry("playersInfo", JObj(infos))>>))>>) :
        ps \in PlayerArrays, infos \in InfoObjects }

OptEntry(k, values) == {<<>>} \cup { <<JEntry(k, v)>> : v \in values }

\* inputs that vary the presence and the type of the top-level fields
TopInputs ==
    { JObj(a \o b \o c \o d \o e \o f) :
        a \in OptEntry("status", {JStr(<<"f", "a", "i", "l">>), JPosInt(3)}),
        b \in OptEntry("timePlayed", {JFloat(15), JPosInt(7), JStr(<<"7">>)}),
        c \in OptEntry("authorUserId", {JStr(<<"1", "7">>), JPosInt(7)}),
        d \in OptEntry("author", {JStr(<<"k", "i", "t">>), JNull}),
        e \in OptEntry("player", {JArr(<<>>), JArr(<<PlayerElem("s7", 1)>>),
                                  JStr(<<"x">>)}),
        f \in OptEntry("uiScriptsData",
                       {JNull, JObj(<<>>),
                        JObj(<<JEntry("playersInfo", JArr(<<>>))>>),
                        JObj(<<JEntry("playersInfo", JObj(<<InfoEntry("id7", 1)>>))>>)}) }

JsonInputs ==
    MatchInputs \cup TopInputs \cup {JInvalid, JNull, JArr(<<>>), JStr(<<"x">>)}

InitJson ==
    /\ fn_input \in JsonInputs
    /\ fn_last_ts = 0
    /\ fn_output = Pending
    /\ LoopIdle

CallParseJson ==
    /\ fn_output = Pending
    /\ fn_output' = parse_replay_results_json(fn_input)
    /\ UNCHANGED <<fn_input, fn_last_ts>>
    /\ UNCHANGED <<loopVars, callerVars>>

NextJson == CallParseJson

SpecJson == InitJson /\ [][NextJson]_vars

\* the entries of an object under a key
Under(entries, key) == { i \in 1 .. Len(entries) : entries[i].k = key }

HasKind(entries, key, kinds) ==
    \E i \in Under(entries, key) : entries[i].v.t \in kinds

\* the userId of a player is the id of an entry of playersInfo, compared as
\* a string or as a number
UserIdIsAnId(player_obj, players_info) ==
    \E i \in Under(player_obj, "userId") :
        /\ player_obj[i].v.t = "str"
        /\ \E k \in 1 .. Len(players_info) :
              /\ players_info[k].v.t = "obj"
              /\ \E j \in Under(players_info[k].v.obj, "id") :
                    LET id == players_info[k].v.obj[j].v
                    IN  /\ id.t = "posint"
                        /\ \/ to_string(id.posint) = player_obj[i].v.str
                           \/ parse_u64(player_obj[i].v.str) = Some(id.posint)

\* the `player` array and the `playersInfo` entries of an input that has both
PlayersIn(json) == json.obj[CHOOSE i \in Under(json.obj, "player") : TRUE].v.arr
InfosIn(json) ==
    LET ui == json.obj[CHOOSE i \in Under(json.obj, "uiScriptsData") : TRUE].v.obj
    IN  ui[CHOOSE i \in Under(ui, "playersInfo") : TRUE].v.obj

\* an input with a `player` array and a `uiScriptsData.playersInfo` object
HasPlayersAndInfos(json) ==
    /\ json.t = "obj"
    /\ HasKind(json.obj, "player", {"arr"})
    /\ \E i \in Under(json.obj, "uiScriptsData") :
          json.obj[i].v.t = "obj" /\ HasKind(json.obj[i].v.obj, "playersInfo", {"obj"})

\* C17: the players emitted are exactly the elements of `player` whose userId
\* is the id of some playersInfo entry, in the order of the array; a player
\* whose userId is missing or not a number is skipped.
C17_Original ==
    (fn_output # Pending /\ HasPlayersAndInfos(fn_input)) =>
        LET ps == PlayersIn(fn_input)
            out == fn_output.players
        IN  /\ fn_output.tag = "Ok"
            /\ \A j, k \in 1 .. Len(out) :
                   j < k => out[j].replay_data.kills < out[k].replay_data.kills
            /\ \A i \in 1 .. Len(ps) :
                   (ps[i].t = "obj" /\ ~HasKind(ps[i].obj, "userId", {"posint"})) =>
                       ((\E j \in 1 .. Len(out) : out[j].replay_data.kills = i)
                            <=> UserIdIsAnId(ps[i].obj, InfosIn(fn_input)))

\* what a top-level string field gives: its value, or the default when the
\* field is absent or no string
TopString(entries, key, default, actual) ==
    IF HasKind(entries, key, {"str"})
    THEN \E i \in Under(entries, key) : actual = entries[i].v.str
    ELSE actual = default

\* the same for a number, in halves
TopNumber(entries, key, default, actual) ==
    IF HasKind(entries, key, {"float"})
    THEN \E i \in Under(entries, key) : actual = entries[i].v.float
    ELSE IF HasKind(entries, key, {"posint"})
    THEN \E i \in Under(entries, key) : actual = 2 * entries[i].v.posint
    ELSE actual = default

\* C18: on every JSON object the mapping succeeds; status, timePlayed,
\* authorUserId and author are copied from the top-level fields, with
\* "unknown", 0, "-1" and "server" for a field that is absent or of the wrong
\* type; without `player` or `uiScriptsData.playersInfo` there are no players.
C18_TopLevelDefaults ==
    (fn_output # Pending /\ fn_input.t = "obj") =>
        LET o == fn_input.obj IN
        /\ fn_output.tag = "Ok"
        /\ TopString(o, "status", Str_unknown, fn_output.status)
        /\ TopNumber(o, "timePlayed", 0, fn_output.time_played)
        /\ TopString(o, "authorUserId", Str_minus1, fn_output.author_user_id)
        /\ TopString(o, "author", Str_server, fn_output.author)
        /\ (\/ Under(o, "player") = {}
            \/ Under(o, "uiScriptsData") = {}
            \/ \E i \in Under(o, "uiScriptsData") :
                   o[i].v.t = "obj" /\ Under(o[i].v.obj, "playersInfo") = {})
               => fn_output.players = <<>>

\* status is a number, author is missing, authorUserId is a number and
\* timePlayed a float: three defaults and one copy
C18_Witness ==
    /\ fn_output # Pending
    /\ fn_input.t = "obj"
    /\ HasKind(fn_input.obj, "status", {"posint"})
    /\ Under(fn_input.obj, "author") = {}
    /\ HasKind(fn_input.obj, "authorUserId", {"posint"})
    /\ HasKind(fn_input.obj, "timePlayed", {"float"})
    /\ Under(fn_input.obj, "player") = {}
    /\ fn_output.tag = "Ok"
    /\ fn_output.status = Str_unknown
    /\ fn_output.author = Str_server
    /\ fn_output.author_user_id = Str_minus1
    /\ fn_output.time_played = 15
    /\ fn_output.players = <<>>

---------------------------------------------------------------------------
(* The results step: parse_replay_results, decompress_blk and the gate of  *)
(* process_replay_stream_with_header.                                      *)

\* the ways decompress_blk fails: spawn, write_all, wait_with_output, the
\* exit status, String::from_utf8
BlkErrors == {"SpawnFailed", "WriteFailed", "WaitFailed", "ExitNonZero", "NotUtf8"}

\* what serde_json makes of the text a successful run printed
BlkJsons ==
    {JInvalid, JArr(<<>>), JObj(<<>>),
     JObj(<<JEntry("status", JStr(<<"o", "k">>)), JEntry("timePlayed", JPosInt(7))>>)}

\* wt_ext_cli is a program outside the repository: what a run of it comes to
\* is chosen with the call
BlkOutcomes ==
    { [tag |-> "Err", kind |-> k] : k \in BlkErrors }
        \cup { [tag |-> "Ok", json |-> j] : j \in BlkJsons }

\* lines 676-717
decompress_blk(compressed_data, outcome) == outcome

\* line 641
RezBeyondData(d, rez_offset) == rez_offset >= Len(d)

\* lines 640-674.  `handed` holds the slice given to decompress_blk, if the
\* call was made; `results` is the Option returned.
parse_replay_results(d, rez_offset, outcome) ==
    IF RezBeyondData(d, rez_offset)
    THEN [handed |-> <<>>, results |-> None]
    ELSE LET compressed_data == SubSeq(d, rez_offset + 1, Len(d))
             json_data == decompress_blk(compressed_data, outcome)
         IN  [handed |-> <<compressed_data>>,
              results |->
                  IF json_data.tag = "Err" THEN None
                  ELSE LET r == parse_replay_results_json(json_data.json)
                       IN  IF r.tag = "Ok" THEN Some(r) ELSE None]

\* one more entry of the history of decompress_blk calls
LogBlk(log, r, outcome) ==
    log \o [i \in 1 .. Len(r.handed) |-> [input |-> r.handed[i], outcome |-> outcome]]

\* mutant: a decode without results gives its packets up
WithResults_Reset(stats, replay_results) ==
    [tag |-> "Ok",
     packet_count |-> IF replay_results = None THEN 0 ELSE stats.packet_count,
     total_decompressed_bytes |-> stats.total_decompressed_bytes,
     final_offset |-> stats.final_offset,
     packets |-> IF replay_results = None THEN <<>> ELSE stats.packets,
     chat_messages |-> stats.chat_messages,
     replay_results |-> replay_results]

\* lines 412 and 423: the ParsedReplay of the loop with its replay_results
\* field assigned (None is what the loop left there)
WithResults(stats, replay_results) ==
    [tag |-> "Ok",
     packet_count |-> stats.packet_count,
     total_decompressed_bytes |-> stats.total_decompressed_bytes,
     final_offset |-> stats.final_offset,
     packets |-> stats.packets,
     chat_messages |-> stats.chat_messages,
     replay_results |-> replay_results]

\* line 407.  The length is cast to u32; the data of the model is far
\* shorter than 4 GiB, where the cast changes nothing.
RezGate(d, rez_offset) == rez_offset > 0 /\ rez_offset < Len(d)

\* mutant: the results are looked for whatever the packet loop returned
ResultsAttempted_Always(stats) == TRUE

\* line 404: the `?` returns the error of the packet loop at once, so the
\* lines after it run only on Ok
ResultsAttempted(stats) == stats.tag = "Ok"

\* lines 404-423 of process_replay_stream_with_header, once the packet loop
\* has returned
AttachResults ==
    /\ caller = "with_header"
    /\ pc = "done"
    /\ IF ResultsAttempted(returned) /\ RezGate(data, header_info[1].rez_offset)
       THEN \E outcome \in BlkOutcomes :
               LET r == parse_replay_results(data, header_info[1].rez_offset, outcome)
               IN  /\ blk_calls' = LogBlk(blk_calls, r, outcome)
                   /\ result' = IF returned.tag = "Err" THEN returned
                                 ELSE WithResults(returned, r.results)
       ELSE /\ result' = IF returned.tag = "Err" THEN returned
                         ELSE WithResults(returned, None)
            /\ UNCHANGED blk_calls
    /\ caller' = "done"
    /\ UNCHANGED <<args, has_wrpl_header, header_info, blk>>
    /\ UNCHANGED <<loopVars, fnVars>>

\* the pieces of the streams of this part: the short ones of the catalog
ResultChunks == { c \in ChunkCatalog : Len(c.body) <= 1 }

\* process_replay_stream_with_header on a one-byte pad and a stream, with a
\* header whose rez_offset lies before, inside, at the end of and past the data
InitWithHeader ==
    /\ chunks \in SeqsUpTo(ResultChunks, MaxChunks)
    /\ cut = Len(Flatten(chunks))
    /\ skip_zlib \in BOOLEAN
    /\ data = Pad(1) \o (IF skip_zlib THEN StreamOf(chunks, cut) ELSE ZlibBlob)
    /\ start_offset \in {1, Len(data) + 1}
    /\ pc = "start"
    /\ InitLoopState
    /\ FnIdle
    /\ caller = "with_header"
    /\ args = [offset |-> Some(start_offset), skip_zlib |-> skip_zlib,
               parse_results |-> TRUE]
    /\ has_wrpl_header = TRUE
    /\ \E r \in 0 .. Len(data) + 1 : header_info = Some([rez_offset |-> r])
    /\ blk_calls = <<>>
    /\ blk = [pc |-> "idle"]
    /\ result = [tag |-> "Running"]

\* the data of a direct call of parse_replay_results
LocatorData == {<<>>, <<1>>, <<1, 2, 3>>}

InitLocator ==
    /\ \E d \in LocatorData, r \in 0 .. 4 : fn_input = [data |-> d, rez_offset |-> r]
    /\ fn_last_ts = 0
    /\ fn_output = Pending
    /\ LoopIdle

CallParseReplayResults ==
    /\ fn_output = Pending
    /\ caller = "idle"
    /\ pc = "idle"
    /\ "rez_offset" \in DOMAIN fn_input
    /\ \E outcome \in BlkOutcomes :
          LET r == parse_replay_results(fn_input.data, fn_input.rez_offset, outcome)
          IN  /\ fn_output' = [tag |-> "Returned", results |-> r.results]
              /\ blk_calls' = LogBlk(blk_calls, r, outcome)
    /\ UNCHANGED <<fn_input, fn_last_ts>>
    /\ UNCHANGED <<caller, args, has_wrpl_header, header_info, blk, result>>
    /\ UNCHANGED loopVars

NextResults == Next \/ AttachResults \/ CallParseReplayResults

SpecResults == (InitWithHeader \/ InitLocator) /\ [][NextResults]_vars

---------------------------------------------------------------------------
(* Claims about the results step.                                          *)

\* what the locator did on data d and offset rez_offset, as the claim has
\* it: nothing and no results for an offset of 0 or one at or past the end,
\* else one call of the decoder on d[rez_offset..]
LocatorAsClaimed(d, rez_offset, results) ==
    IF rez_offset = 0 \/ rez_offset >= Len(d)
    THEN results = None /\ blk_calls = <<>>
    ELSE /\ Len(blk_calls) = 1
         /\ blk_calls[1].input = SubSeq(d, rez_offset + 1, Len(d))

\* C15: parse_replay_results and the gate of process_replay_stream_with_header
\* return no results, without a call of the blk decoder, when rez_offset is 0
\* or is at or past the end of the file; only for 0 < rez_offset < length is
\* file[rez_offset..] handed to the decoder.
C15_Original ==
    /\ (caller = "done" /\ result.tag = "Ok") =>
           LocatorAsClaimed(data, header_info[1].rez_offset, result.replay_results)
    /\ (caller = "idle" /\ fn_output.tag = "Returned") =>
           LocatorAsClaimed(fn_input.data, fn_input.rez_offset, fn_output.results)

\* the run of the decoder brought no JSON object
BlkFailed(outcome) ==
    \/ outcome.tag = "Err"
    \/ outcome.tag = "Ok" /\ outcome.json.t # "obj"

\* C16: when the results step fails (spawn, write, wait, exit status, UTF-8,
\* or an output that is no JSON object), replay_results is None, the decode
\* returns Ok, and packets, chat_messages, packet_count and
\* total_decompressed_bytes are what the packet loop produced.
C16_ResultsFailureLocal ==
    /\ (caller = "done" /\ returned.tag = "Ok" /\ blk_calls # <<>>
            /\ BlkFailed(blk_calls[1].outcome)) =>
           /\ result.tag = "Ok"
           /\ result.replay_results = None
           /\ result.packets = packets
           /\ result.chat_messages = chat_messages
           /\ result.packet_count = packet_count
           /\ result.total_decompressed_bytes = total_decompressed_bytes
           /\ result.packets = returned.packets
           /\ result.chat_messages = returned.chat_messages
    /\ (caller = "idle" /\ fn_output.tag = "Returned" /\ blk_calls # <<>>
            /\ BlkFailed(blk_calls[1].outcome)) =>
           fn_output.results = None

\* the tool exited with a non-zero status after a loop that decoded a packet
C16_Witness ==
    /\ caller = "done"
    /\ returned.tag = "Ok"
    /\ Len(blk_calls) = 1
    /\ blk_calls[1].outcome = [tag |-> "Err", kind |-> "ExitNonZero"]
    /\ Len(result.packets) >= 1
    /\ result.replay_results = None

---------------------------------------------------------------------------
(* The search for the start of the zlib stream (src/src/utils.rs).         *)

\* 64 * 1024
ZLIB_SEARCH_CHUNK_SIZE == 65536
MAX_ZLIB_HEADER_LEN == 2

\* 78 5E, 78 9C, 78 DA
ZLIB_HEADERS == << <<120, 94>>, <<120, 156>>, <<120, 218>> >>

\* memmem::Finder::find: the 0-based index of the first occurrence of the
\* needle h in the haystack d, if there is one
FinderFind(h, d) ==
    LET at == { i \in 0 .. Len(d) - Len(h) : SubSeq(d, i + 1, i + Len(h)) = h }
    IN  IF at = {} THEN None ELSE Some(CHOOSE i \in at : \A j \in at : i <= j)

\* lines 58-86: the earliest of the first occurrences of the three headers
RECURSIVE FirstFound(_, _, _, _)
FirstFound(search_data, search_start_offset, i, first_found_offset) ==
    IF i > Len(ZLIB_HEADERS) THEN first_found_offset
    ELSE LET idx == FinderFind(ZLIB_HEADERS[i], search_data)
             next == IF idx = None THEN first_found_offset
                     ELSE LET absolute_offset == search_start_offset + idx[1]
                          IN  IF first_found_offset = None
                                    \/ absolute_offset < first_found_offset[1]
                              THEN Some(absolute_offset)
                              ELSE first_found_offset
         IN  FirstFound(search_data, search_start_offset, i + 1, next)

\* find_zlib_header, for a search_start_offset within the data
find_zlib_header(d, search_start_offset) ==
    FirstFound(SubSeq(d, search_start_offset + 1, Len(d)), search_start_offset, 1, None)

\* u64::saturating_sub
saturating_sub(a, b) == IF a >= b THEN a - b ELSE 0

\* mutant: no byte of a chunk is carried over to the next one
ScanStep_NoOverlap(file, bytes_read, current_file_pos, overlap) ==
    LET buffer == overlap \o SubSeq(file, current_file_pos + 1,
                                    current_file_pos + bytes_read)
        found == find_zlib_header(buffer, 0)
    IN  IF bytes_read = 0 THEN [tag |-> "Done", value |-> None]
        ELSE IF found # None
        THEN [tag |-> "Done",
              value |-> Some(saturating_sub(current_file_pos, Len(overlap)) + found[1])]
        ELSE [tag |-> "Scanning", current_file_pos |-> current_file_pos + bytes_read,
              overlap |-> <<>>]

\* lines 108-151: one turn of the loop of find_zlib_header_offset, with the
\* file read up to current_file_pos and a read that brings bytes_read bytes
ScanStep(file, bytes_read, current_file_pos, overlap) ==
    LET buffer == overlap \o SubSeq(file, current_file_pos + 1,
                                    current_file_pos + bytes_read)
        found == find_zlib_header(buffer, 0)
        overlap_start == saturating_sub(Len(buffer), MAX_ZLIB_HEADER_LEN - 1)
    IN  IF bytes_read = 0 THEN [tag |-> "Done", value |-> None]
        ELSE IF found # None
        THEN [tag |-> "Done",
              value |-> Some(saturating_sub(current_file_pos, Len(overlap)) + found[1])]
        ELSE [tag |-> "Scanning", current_file_pos |-> current_file_pos + bytes_read,
              overlap |-> SubSeq(buffer, overlap_start + 1, Len(buffer))]

\* what is left of the file, or a whole chunk when more is left
FullRead(file, chunk_size, current_file_pos) ==
    LET left == saturating_sub(Len(file), current_file_pos)
    IN  IF left < chunk_size THEN left ELSE chunk_size

\* the loop with reads that bring a whole chunk, or what is left of the file
RECURSIVE SearchChunks(_, _, _, _)
SearchChunks(file, chunk_size, current_file_pos, overlap) ==
    LET r == ScanStep(file, FullRead(file, chunk_size, current_file_pos),
                      current_file_pos, overlap)
    IN  IF r.tag = "Done" THEN r.value
        ELSE SearchChunks(file, chunk_size, r.current_file_pos, r.overlap)

\* mutant: a search that finds nothing gives the offset it started from
find_zlib_header_offset_OrStart(file, search_start_offset) ==
    LET found == SearchChunks(file, ZLIB_SEARCH_CHUNK_SIZE, search_start_offset, <<>>)
    IN  IF found = None THEN Some(search_start_offset) ELSE found

\* find_zlib_header_offset on a file that can be opened and read: Ok(Some(d))
\* or Ok(None)
find_zlib_header_offset(file, search_start_offset) ==
    SearchChunks(file, ZLIB_SEARCH_CHUNK_SIZE, search_start_offset, <<>>)

---------------------------------------------------------------------------
(* The orchestrator: main of src/src/bin/parse_replay.rs.  It reads the    *)
(* whole file, looks for the magic, parses the header, chooses the offset  *)
(* of the stream, runs the packet loop and reports.                        *)

\* b"\xE5\xAC"
WrplMagic == <<229, 172>>

\* lines 77-89
HasMagic(file_data) ==
    Len(file_data) >= 2 /\ SubSeq(file_data, 1, 2) = WrplMagic

\* lines 91-107
HeaderInfo(file_data) ==
    IF ~HasMagic(file_data) THEN None
    ELSE LET h == parse_header(file_data)
         IN  IF h.tag = "Ok" THEN Some(h.header) ELSE None

\* lines 109-166: the start offset, or None where main exits with code 1
SelectOffset(a, has_header, info, file_data) ==
    IF a.offset # None THEN a.offset
    ELSE IF has_header /\ info # None
    THEN IF a.skip_zlib THEN Some(0) ELSE find_zlib_header_offset(file_data, 2)
    ELSE Some(0)

Exit(code) == [tag |-> "Exit", code |-> code]

\* lines 58-166
MainSelect ==
    /\ caller = "main"
    /\ has_wrpl_header' = HasMagic(data)
    /\ header_info' = HeaderInfo(data)
    /\ LET sel == SelectOffset(args, has_wrpl_header', header_info', data)
       IN  IF sel = None
           THEN /\ result' = Exit(1)
                /\ caller' = "exited"
                /\ UNCHANGED <<start_offset, pc>>
           ELSE /\ start_offset' = sel[1]
                /\ pc' = "start"
                /\ caller' = "stream"
                /\ UNCHANGED result
    /\ UNCHANGED <<args, blk_calls, blk>>
    /\ UNCHANGED <<data, skip_zlib, stream, pos, last_timestamp_ms, packet_count,
                   total_decompressed_bytes, final_offset, packets, chat_messages,
                   decompressed_payload_size, prefix_bytes_read,
                   packet_data_with_header, total_bytes_read_for_payload, returned,
                   frames, chunks, cut>>
    /\ UNCHANGED fnVars

\* lines 168-227, once the packet loop has returned: the results step when
\* it was asked for and a header was parsed, and the exit code
MainReport ==
    /\ caller = "stream"
    /\ pc = "done"
    /\ IF returned.tag = "Err"
       THEN /\ result' = Exit(1)
            /\ UNCHANGED blk_calls
       ELSE IF args.parse_results /\ header_info # None
                  /\ RezGate(data, header_info[1].rez_offset)
       THEN \E outcome \in BlkOutcomes :
               LET r == parse_replay_results(data, header_info[1].rez_offset, outcome)
               IN  /\ blk_calls' = LogBlk(blk_calls, r, outcome)
                   /\ result' = [tag |-> "Exit", code |-> 0,
                                 stats |-> WithResults(returned, r.results)]
       ELSE /\ result' = [tag |-> "Exit", code |-> 0,
                          stats |-> WithResults(returned, None)]
            /\ UNCHANGED blk_calls
    /\ caller' = "exited"
    /\ UNCHANGED <<args, has_wrpl_header, header_info, blk>>
    /\ UNCHANGED <<loopVars, fnVars>>

\* the length parse_header needs
HeaderLen == 1224

\* A header: the magic, rez_offset in the field at 684, zeros elsewhere,
\* and 78 9C in the level name when `pair` is set.
MainHeader(rez, pair) ==
    [i \in 1 .. HeaderLen |->
        CASE i = 1 -> 229
          [] i = 2 -> 172
          [] i = 10 /\ pair -> 120
          [] i = 11 /\ pair -> 156
          [] i = 685 -> rez % 256
          [] i = 686 -> rez \div 256
          [] OTHER -> 0]

MainFiles ==
    { <<>>, <<229>>, WrplMagic, WrplMagic \o ZlibBlob, ZlibBlob, <<129, 18>>,
      MainHeader(0, FALSE), MainHeader(0, TRUE),
      MainHeader(0, FALSE) \o ZlibBlob,
      MainHeader(HeaderLen + 2, FALSE) \o ZlibBlob \o <<1>>,
      MainHeader(0, FALSE) \o <<129, 18>> }

MainOffsets == {None, Some(0), Some(2), Some(HeaderLen), Some(2 * HeaderLen)}

InitMain ==
    /\ data \in MainFiles
    /\ args \in [offset : MainOffsets, skip_zlib : BOOLEAN, parse_results : BOOLEAN]
    /\ skip_zlib = args.skip_zlib
    /\ chunks \in SeqsUpTo(ResultChunks, 1)
    /\ cut = Len(Flatten(chunks))
    /\ start_offset = 0
    /\ pc = "idle"
    /\ InitLoopState
    /\ FnIdle
    /\ caller = "main"
    /\ has_wrpl_header = FALSE
    /\ header_info = None
    /\ blk_calls = <<>>
    /\ blk = [pc |-> "idle"]
    /\ result = [tag |-> "Running"]

NextMain == MainSelect \/ Next \/ MainReport

SpecMain == InitMain /\ [][NextMain]_vars

---------------------------------------------------------------------------
(* Claims about the orchestrator.                                          *)

\* main has chosen a start offset and gone on to the packet loop
OffsetChosen == caller = "stream" \/ (caller = "exited" /\ returned.tag # "Running")

\* C19: an explicit offset is used whenever it is given; without one, a file
\* whose header is present (it starts with E5 AC), decoded without skip_zlib,
\* starts at what the search for a zlib header from byte 2 finds; every other
\* file starts at offset 0.
C19_Original ==
    OffsetChosen =>
        IF args.offset # None THEN start_offset = args.offset[1]
        ELSE IF HasMagic(data) /\ ~args.skip_zlib
        THEN find_zlib_header(data, 2) = Some(start_offset)
        ELSE start_offset = 0

\* a file that is one full header: the magic and HeaderLen bytes in all
HeaderOnly == HasMagic(data) /\ Len(data) = HeaderLen

DefaultOptions == args.offset = None /\ ~args.skip_zlib

---------------------------------------------------------------------------
(* process_replay_data at every start offset of its data.                  *)

\* Data with and without a pad in front and with and without a stream
\* behind it, read from every offset up to one past its end.
InitOffsets ==
    /\ chunks \in SeqsUpTo(ResultChunks, MaxChunks)
    /\ cut = Len(Flatten(chunks))
    /\ skip_zlib \in BOOLEAN
    /\ \E k \in PadLens :
          data \in {Pad(k),
                    Pad(k) \o (IF skip_zlib THEN StreamOf(chunks, cut) ELSE ZlibBlob)}
    /\ start_offset \in 0 .. Len(data) + 1
    /\ pc = "start"
    /\ InitLoopState
    /\ FnIdle
    /\ NoCaller

SpecOffsets == InitOffsets /\ [][Next]_vars

\* C21: process_replay_data fails with OffsetBeyondEof exactly when
\* start_offset is greater than the length of the data; at start_offset equal
\* to the length (a zero-byte input at offset 0 among them) it returns Ok
\* with no packets, no chat messages, packet_count 0 and
\* total_decompressed_bytes 0, with zlib and without.
C21_OffsetBeyondEof ==
    pc = "done" =>
        /\ (returned = ReturnErr("OffsetBeyondEof")) <=> (start_offset > Len(data))
        /\ (start_offset = Len(data)) =>
               /\ returned.tag = "Ok"
               /\ returned.packets = <<>>
               /\ returned.chat_messages = <<>>
               /\ returned.packet_count = 0
               /\ returned.total_decompressed_bytes = 0

\* a zero-byte input read from offset 0 through the zlib decoder
C21_Witness ==
    /\ pc = "done"
    /\ data = <<>>
    /\ start_offset = 0
    /\ ~skip_zlib
    /\ returned.tag = "Ok"
    /\ returned.packets = <<>>

---------------------------------------------------------------------------
(* find_zlib_header_offset read by read.  A read of the file brings any    *)
(* number of bytes from 1 up to the size of the chunk buffer, and 0 only   *)
(* at the end of the file.                                                 *)

\* length of the files searched
MaxScanLen == 4
\* size of the chunk buffer of the search
MaxScanChunk == 2

ScanBytes == {0, 94, 120, 218}

\* what the search holds between two reads; `reads` is the history of the
\* read sizes
Scanning(current_file_pos, overlap, reads) ==
    [tag |-> "Scanning", current_file_pos |-> current_file_pos,
     overlap |-> overlap, reads |-> reads]

InitScan ==
    /\ \E f \in SeqsUpTo(ScanBytes, MaxScanLen), c \in 1 .. MaxScanChunk :
          \E s \in 0 .. Len(f) + 1 :
              fn_input = [file |-> f, search_start_offset |-> s, chunk_size |-> c]
    /\ fn_last_ts = 0
    /\ fn_output = Pending
    /\ LoopIdle

\* lines 96-106: the file is opened and the reader seeks to the start offset
ScanOpen ==
    /\ fn_output = Pending
    /\ "chunk_size" \in DOMAIN fn_input
    /\ fn_output' = Scanning(fn_input.search_start_offset, <<>>, <<>>)
    /\ UNCHANGED <<fn_input, fn_last_ts>>
    /\ UNCHANGED <<loopVars, callerVars>>

\* lines 108-151, one turn of the loop
ScanRead ==
    /\ fn_output.tag = "Scanning"
    /\ LET left == saturating_sub(Len(fn_input.file), fn_output.current_file_pos)
           most == IF left < fn_input.chunk_size THEN left ELSE fn_input.chunk_size
       IN  \E bytes_read \in (IF most = 0 THEN {0} ELSE 1 .. most) :
              LET r == ScanStep(fn_input.file, bytes_read,
                                fn_output.current_file_pos, fn_output.overlap)
                  reads == Append(fn_output.reads, bytes_read)
              IN  fn_output' =
                      IF r.tag = "Done"
                      THEN [tag |-> "Done", value |-> r.value, reads |-> reads]
                      ELSE Scanning(r.current_file_pos, r.overlap, reads)
    /\ UNCHANGED <<fn_input, fn_last_ts>>
    /\ UNCHANGED <<loopVars, callerVars>>

NextScan == ScanOpen \/ ScanRead

SpecScan == InitScan /\ [][NextScan]_vars

\* one of the three zlib headers lies at the 0-based position p of d
ZlibHeaderAt(d, p) ==
    /\ p + 2 <= Len(d)
    /\ d[p + 1] = 120
    /\ d[p + 2] \in {94, 156, 218}

RECURSIVE SumSeq(_)
SumSeq(q) == IF Len(q) = 0 THEN 0 ELSE Head(q) + SumSeq(Tail(q))

\* C22: however the reads cut the file into chunks, find_zlib_header_offset
\* returns what find_zlib_header returns on the whole file: the smallest
\* position at or after the start offset where 78 5E, 78 9C or 78 DA lies,
\* and none exactly when there is no such position.
C22_ChunkedSearch ==
    fn_output.tag = "Done" =>
        LET f == fn_input.file
            s == fn_input.search_start_offset
            at == { p \in s .. Len(f) : ZlibHeaderAt(f, p) }
        IN  /\ (fn_output.value = None) <=> (at = {})
            /\ at # {} =>
                   /\ fn_output.value[1] \in at
                   /\ \A p \in at : fn_output.value[1] <= p
            /\ s <= Len(f) => fn_output.value = find_zlib_header(f, s)

\* a header found with its two bytes in two different reads
C22_Witness ==
    /\ fn_output.tag = "Done"
    /\ fn_output.value # None
    /\ \E j \in 1 .. Len(fn_output.reads) - 1 :
          fn_input.search_start_offset + SumSeq(SubSeq(fn_output.reads, 1, j))
              = fn_output.value[1] + 1

---------------------------------------------------------------------------
(* Frames of size zero.                                                    *)

\* the packets that a sequence of non-empty frame bodies decodes to, one
\* body after the other, with `last` the timestamp in force before the first
RECURSIVE DecodeBodies(_, _)
DecodeBodies(bodies, last) ==
    IF Len(bodies) = 0 THEN <<>>
    ELSE LET h == read_packet_header_from_stream(Head(bodies), 0, last)
         IN  <<PacketInfo(h.packet_type, h.timestamp_ms,
                          PayloadContent(Head(bodies), h.bytes_read))>>
                 \o DecodeBodies(Tail(bodies), h.timestamp_ms)

\* the bodies of the pieces that declare a size above zero
NonZeroBodies(cs) ==
    LET nz == SelectSeq(cs, LAMBDA c : Len(c.body) > 0)
    IN  [i \in 1 .. Len(nz) |-> nz[i].body]

\* the stream is made of whole frames and is read from its start
WholeFrames ==
    /\ AllFrames(chunks)
    /\ cut = Len(Flatten(chunks))
    /\ start_offset <= Len(data)

\* the step the loop takes on a frame of declared size 0
ZeroFrameStep ==
    (pc = "packet" /\ decompressed_payload_size = 0) =>
        /\ pc' = "prefix"
        /\ packets' = packets
        /\ chat_messages' = chat_messages
        /\ last_timestamp_ms' = last_timestamp_ms

\* C23: a frame whose prefix declares size 0 does not end the packet loop:
\* the loop goes on to read the next prefix, and the packets of a stream of
\* whole frames are the packets of the same stream without its zero-size
\* frames.
C23_ZeroSizeFrame ==
    /\ [][ZeroFrameStep]_vars
    /\ []((pc = "done" /\ WholeFrames) =>
             /\ returned.tag = "Ok"
             /\ returned.packets = DecodeBodies(NonZeroBodies(chunks), 0))

\* a zero-size frame first, then a frame that was decoded and emitted
C23_Witness ==
    /\ pc = "done"
    /\ WholeFrames
    /\ Len(chunks) = 2
    /\ Len(chunks[1].body) = 0
    /\ Len(chunks[2].body) > 0
    /\ returned.tag = "Ok"
    /\ Len(returned.packets) = 1
    /\ returned.packet_count = 2

---------------------------------------------------------------------------
(* Frames cut short by the end of the stream.                              *)

\* frame f was cut short: the stream held some of its declared bytes, not all
CutShort(f) == f.consumed >= 1 /\ f.consumed < f.size

\* C24 as stated: when the stream ends inside a frame after k >= 1 of its n
\* declared bytes, the frame buffer is cut down to those k bytes and is
\* processed: a packet is recorded for it; the loop stops without processing
\* a frame only when no byte of it was obtained from the stream.
C24_Original ==
    (pc = "done" /\ returned.tag = "Ok") =>
        /\ \A i \in 1 .. Len(frames) :
               CutShort(frames[i]) => frames[i].got = frames[i].consumed
        /\ Len(returned.packets) =
               Len(SelectSeq(frames, LAMBDA f : f.consumed >= 1))

---------------------------------------------------------------------------
(* Packet headers whose timestamp is cut short.                            *)

\* frame f starts a timestamp (flag 0x10 clear) and ends before its 4 bytes
FrameShortTs(f) ==
    /\ f.got >= 1
    /\ f.got < 5
    /\ ~TimestampElided(FrameByte0(f))

\* C25: when the first byte of a packet header has bit 0x10 clear and fewer
\* than 4 bytes follow it, read_packet_header_from_stream does not fail: it
\* returns the first byte as the packet type, with the previous timestamp;
\* the packet loop keeps its last timestamp and emits a packet for the frame.
C25_ShortTimestamp ==
    /\ (pc = "idle" /\ fn_output.tag \in {"Some", "None", "Err"}
          /\ Len(fn_input) >= 1 /\ Len(fn_input) < 5
          /\ ~TimestampElided(fn_input[1])) =>
           fn_output = PacketHeaderSome(fn_input[1], fn_last_ts, 1)
    /\ (pc \in {"prefix", "finish", "done"}) =>
           LET ne == NonEmptyFrames IN
           /\ Len(packets) = Len(ne)
           /\ \A i \in 1 .. Len(ne) :
                  (i <= Len(packets) /\ FrameShortTs(ne[i])) =>
                      /\ packets[i].packet_type = PacketTypeOf(FrameByte0(ne[i]))
                      /\ packets[i].timestamp_ms =
                             (IF i = 1 THEN 0 ELSE packets[i - 1].timestamp_ms)
                      /\ Len(packets[i].payload) = ne[i].got - 1
                      /\ (i = Len(ne) => last_timestamp_ms = packets[i].timestamp_ms)

\* a frame with the timestamp 100, then a frame of two bytes that starts a
\* timestamp: its packet carries 100
C25_Witness ==
    /\ pc = "done"
    /\ returned.tag = "Ok"
    /\ Len(NonEmptyFrames) = 2
    /\ FrameShortTs(NonEmptyFrames[2])
    /\ Len(returned.packets) = 2
    /\ returned.packets[1].timestamp_ms = 100
    /\ returned.packets[2].timestamp_ms = 100


\* ---------------------------------------------------------------------
\* decompress_blk (parser.rs 676-717) at the level of its three pipes.
\* The parent spawns wt_ext_cli with piped stdin, stdout and stderr,
\* writes the whole block with write_all and only then calls
\* wait_with_output, which closes stdin, reads stdout and stderr to their
\* end and reaps the child.  The child is an external program: the order
\* in which it reads its input and writes its output is its own choice,
\* so every order is taken.  Bytes are counted, not stored; stdout and
\* stderr are two pipes of the same capacity.
\* ---------------------------------------------------------------------

\* capacity of a pipe, in bytes
PipeCapacity == 2
\* largest compressed block, in bytes
MaxBlock == 3
\* largest amount the child writes to one of its output pipes
MaxChildOutput == 3

Least(a, b) == IF a < b THEN a ELSE b

\* the pipes the child writes to
OutPipes == {"stdout", "stderr"}

\* the exit statuses of the child
ChildStatuses == {"success", "failure"}

BlkStart(n, to_out, to_err) ==
    [pc |-> "spawn", to_write |-> n, stdin |-> 0, stdin_open |-> FALSE,
     child |-> "none", child_pipe |-> "stdout",
     left |-> [p \in OutPipes |-> IF p = "stdout" THEN to_out ELSE to_err],
     pipe |-> [p \in OutPipes |-> 0],
     collected |-> [p \in OutPipes |-> 0],
     status |-> "none", returned |-> "none"]

InitBlk ==
    /\ data = <<>>
    /\ start_offset = 0
    /\ skip_zlib = TRUE
    /\ chunks = <<>>
    /\ cut = 0
    /\ pc = "idle"
    /\ InitLoopState
    /\ FnIdle
    /\ caller = "idle"
    /\ args = [offset |-> <<>>, skip_zlib |-> FALSE, parse_results |-> FALSE]
    /\ has_wrpl_header = FALSE
    /\ header_info = <<>>
    /\ blk_calls = <<>>
    /\ result = [tag |-> "Running"]
    /\ \E n \in 0 .. MaxBlock, to_out \in 0 .. MaxChildOutput,
          to_err \in 0 .. MaxChildOutput :
          blk = BlkStart(n, to_out, to_err)

BlkFrame == UNCHANGED <<loopVars, fnVars, caller, args, has_wrpl_header,
                        header_info, blk_calls, result>>

\* lines 678-690: spawn, with `?` on its failure
BlkSpawn ==
    /\ blk.pc = "spawn"
    /\ \/ blk' = [blk EXCEPT !.pc = "done", !.returned = "Err"]
       \/ blk' = [blk EXCEPT !.pc = "write", !.stdin_open = TRUE,
                             !.child = "run"]
    /\ BlkFrame

\* lines 692-696: write_all blocks while the stdin pipe is full and moves
\* as many bytes as fit; it fails (EPIPE) once the child has exited
ParentWrite ==
    /\ blk.pc = "write"
    /\ blk.to_write > 0
    /\ \/ /\ blk.child = "exited"
          /\ blk' = [blk EXCEPT !.pc = "done", !.returned = "Err"]
       \/ /\ blk.child # "exited"
          /\ blk.stdin < PipeCapacity
          /\ \E k \in 1 .. Least(blk.to_write, PipeCapacity - blk.stdin) :
                blk' = [blk EXCEPT !.to_write = @ - k, !.stdin = @ + k]
    /\ BlkFrame

\* lines 696-699: write_all has returned; wait_with_output drops stdin
\* first, which closes the write end of the pipe
ParentWriteDone ==
    /\ blk.pc = "write"
    /\ blk.to_write = 0
    /\ blk' = [blk EXCEPT !.pc = "wait", !.stdin_open = FALSE]
    /\ BlkFrame

\* lines 698-700: wait_with_output reads whatever stdout or stderr holds
ParentDrain ==
    /\ blk.pc = "wait"
    /\ \E p \in OutPipes :
          /\ blk.pipe[p] > 0
          /\ blk' = [blk EXCEPT !.collected[p] = @ + blk.pipe[p],
                                !.pipe[p] = 0]
    /\ BlkFrame

\* lines 698-717: both pipes are at their end and the child is reaped;
\* a status other than success is an error
ParentReap ==
    /\ blk.pc = "wait"
    /\ blk.child = "exited"
    /\ \A p \in OutPipes : blk.pipe[p] = 0
    /\ blk' = [blk EXCEPT !.pc = "done",
                          !.returned = IF blk.status = "success"
                                       THEN "Ok" ELSE "Err"]
    /\ BlkFrame

\* the child starts its next blocking call: a read of stdin, a write of
\* some of the output it still has, or its exit
ChildCall ==
    /\ blk.child = "run"
    /\ \/ blk' = [blk EXCEPT !.child = "read"]
       \/ \E p \in OutPipes :
             /\ blk.left[p] > 0
             /\ blk' = [blk EXCEPT !.child = "write", !.child_pipe = p]
       \/ \E s \in ChildStatuses :
             blk' = [blk EXCEPT !.child = "exited", !.status = s,
                                !.stdin = 0]
    /\ BlkFrame

\* the child's read returns when stdin holds bytes or has been closed
ChildRead ==
    /\ blk.child = "read"
    /\ \/ /\ blk.stdin > 0
          /\ \E k \in 1 .. blk.stdin :
                blk' = [blk EXCEPT !.stdin = @ - k, !.child = "run"]
       \/ /\ blk.stdin = 0
          /\ ~blk.stdin_open
          /\ blk' = [blk EXCEPT !.child = "run"]
    /\ BlkFrame

\* the child's write returns when the pipe has taken at least one byte
ChildWrite ==
    /\ blk.child = "write"
    /\ LET p == blk.child_pipe IN
       /\ blk.pipe[p] < PipeCapacity
       /\ \E k \in 1 .. Least(blk.left[p], PipeCapacity - blk.pipe[p]) :
             blk' = [blk EXCEPT !.left[p] = @ - k, !.pipe[p] = @ + k,
                                !.child = "run"]
    /\ BlkFrame

NextBlk ==
    \/ BlkSpawn
    \/ ParentWrite
    \/ ParentWriteDone
    \/ ParentDrain
    \/ ParentReap
    \/ ChildCall
    \/ ChildRead
    \/ ChildWrite

SpecBlk == InitBlk /\ [][NextBlk]_vars

\* the parent is inside write_all with the stdin pipe full, and the child
\* is inside a write with that output pipe full
BothBlocked ==
    /\ blk.pc = "write"
    /\ blk.to_write > 0
    /\ blk.stdin = PipeCapacity
    /\ blk.child = "write"
    /\ blk.pipe[blk.child_pipe] = PipeCapacity

\* C26: decompress_blk cannot deadlock.  Whatever the block size and the
\* amount of child output, as long as the call has not returned either the
\* parent or the child can take a step.
C26_Original == blk.pc \in {"spawn", "write", "wait"} => ENABLED NextBlk

\* the only states in which neither side can move are those of BothBlocked
StuckOnlyWhenBothBlocked ==
    (blk.pc \in {"spawn", "write", "wait"} /\ ~ENABLED NextBlk) => BothBlocked


---------------------------------------------------------------------------
(* The length classes of the size prefix.                                  *)

\* the bytes of a prefix read as one big-endian number
RECURSIVE BigEndian(_)
BigEndian(b) ==
    IF b = <<>> THEN 0
    ELSE 256 * BigEndian(SubSeq(b, 1, Len(b) - 1)) + b[Len(b)]

\* the tag bit of the class of n bytes (0x80, 0x4000, 0x200000, 0x10000000):
\* bit 7n, the only thing lines 28, 44, 53-56 and 64-68 take off the value
RECURSIVE ClassTag(_)
ClassTag(n) == IF n = 0 THEN 1 ELSE 128 * ClassTag(n - 1)

\* the call has returned a size
Decoded == pc = "idle" /\ fn_output.tag = "Some"

\* C27 as stated: the encoding is canonical.  A prefix that is accepted is
\* the shortest one that can hold its size, so no size is decoded from
\* prefixes of two different lengths.
C27_Original ==
    Decoded => fn_output.bytes_read = Len(VarSizeEncode(fn_output.size))

\* C27, amended: the encoding is not canonical.  A prefix of n <= 4 bytes
\* decodes to its big-endian value with only the tag bit of its class taken
\* off, and a five-byte prefix to the little-endian u32 after its first byte:
\* nothing is subtracted for the shorter classes.  Every class therefore
\* starts at size 0, and the size of an accepted prefix is also the decoding
\* of its shortest encoding, which is never longer than the prefix and may
\* be shorter.
C27_ClassesOverlap ==
    Decoded =>
        LET n == fn_output.bytes_read
            size == fn_output.size
            shortest == VarSizeEncode(size)
        IN  /\ n \in 1 .. 4 =>
                   size = BigEndian(SubSeq(fn_input, 1, n)) - ClassTag(n)
            /\ n = 5 =>
                   size = u32_from_le_bytes(fn_input[2], fn_input[3],
                                            fn_input[4], fn_input[5])
            /\ Len(shortest) <= n
            /\ IsVarSize(read_variable_length_size(shortest, 0), size,
                         Len(shortest))

\* 0x40 0x00 is accepted as a two-byte prefix of size 0, the size the
\* one-byte prefix 0x80 decodes to
C27_Witness ==
    /\ fn_input = <<64, 0>>
    /\ IsVarSize(fn_output, 0, 2)
    /\ VarSizeEncode(0) = <<128>>
    /\ IsVarSize(read_variable_length_size(<<128>>, 0), 0, 1)


---------------------------------------------------------------------------
(* Termination of the packet loop.                                         *)

\* The loop is sequential code: a step that can be taken is taken.
SpecTerminates == InitLoop /\ [][Next]_vars /\ WF_vars(Next)

\* an iteration starts at the size prefix: it ends the loop, or the reader
\* has moved by at least the first byte of the prefix
PrefixStep ==
    pc = "prefix" => (pc' \in {"finish", "done"} \/ pos' >= pos + 1)

\* C28: the packet loop terminates on every finite input.  Each iteration
\* either ends the loop or consumes at least one byte of the stream, the
\* number of iterations counted never exceeds the number of bytes consumed,
\* which never exceeds the length of the decompressed stream, and the
\* function returns.
C28_LoopTerminates ==
    /\ [][PrefixStep]_vars
    /\ [](packet_count <= pos /\ pos <= Len(stream))
    /\ <>(pc = "done")

\* two frames of one byte each (two zero-size prefixes): as many iterations
\* as the stream has bytes
C28_Witness ==
    /\ pc = "done"
    /\ returned.tag = "Ok"
    /\ Len(stream) = 2
    /\ pos = 2
    /\ returned.packet_count = 2


---------------------------------------------------------------------------
(* The results step comes after the packet loop.                           *)

\* a call of the blk decoder made for process_replay_stream_with_header
\* happens in a step that starts with the packet loop returned, with Ok
BlkCallStep ==
    (caller = "with_header" /\ blk_calls' # blk_calls) =>
        (pc = "done" /\ returned.tag = "Ok")

\* C29: in process_replay_stream_with_header the results block is located
\* and decoded only after the packet loop has returned successfully.  When
\* the loop fails with a fatal error the blk decoder is never called and
\* the error is all that is returned, even when rez_offset is valid.
C29_ResultsAfterLoop ==
    /\ [][BlkCallStep]_vars
    /\ []((caller \in {"with_header", "done"} /\ returned.tag = "Err") =>
              /\ blk_calls = <<>>
              /\ caller = "done" => result = returned)

\* an invalid size prefix under a header whose rez_offset passes the gate
C29_Witness ==
    /\ caller = "done"
    /\ returned = ReturnErr("SizePrefix")
    /\ RezGate(data, header_info[1].rez_offset)
    /\ result = returned
    /\ blk_calls = <<>>


---------------------------------------------------------------------------
(* The final offset.                                                       *)

\* C30: on every successful return of process_replay_data with skip_zlib
\* set, final_offset is start_offset + total_decompressed_bytes and does not
\* pass the end of the data, which it equals when the input from
\* start_offset on is made of complete frames only; with the inflater in
\* use final_offset is 0.
C30_FinalOffset ==
    (pc = "done" /\ returned.tag = "Ok") =>
        IF skip_zlib
        THEN /\ returned.final_offset =
                    start_offset + returned.total_decompressed_bytes
             /\ returned.final_offset <= Len(data)
             /\ WholeFrames => returned.final_offset = Len(data)
        ELSE returned.final_offset = 0

\* two whole frames read raw behind one byte of padding
C30_Witness ==
    /\ pc = "done"
    /\ returned.tag = "Ok"
    /\ skip_zlib
    /\ start_offset = 1
    /\ WholeFrames
    /\ Len(frames) = 2
    /\ returned.total_decompressed_bytes = Len(data) - 1
    /\ returned.final_offset = Len(data)

===========================================================================
